---- MODULE Spec2Model ----
(***************************************************************************)
(* MainWindow of the air-quality station browser (src/mainwindow.cpp and   *)
(* the MainWindow/Station declarations kept in src/main.qml, lines 377ff). *)
(*                                                                         *)
(* A QString is a sequence of one-character strings, so that toLower(),    *)
(* simplified() and QString::number() are computed character by character. *)
(* A double that holds whole degrees or a whole measurement is an integer; *)
(* a QGeoCoordinate holds its latitude and longitude in ten-thousandths of *)
(* a degree, so that (52.2297, 21.0122) is <<522297, 210122>>.             *)
(* Network replies are delivered on the owner thread one at a time; each   *)
(* handler is one action.                                                  *)
(***************************************************************************)
EXTENDS Integers, Sequences, FiniteSets, Bags, TLC

VARIABLES
    m_mapCenter,     \* QGeoCoordinate: <<lat, lon>> in 1/10000 degree, or InvalidCoordinate
    m_status,        \* QString, kept as the sequence of its concatenated parts
    m_stations,      \* QList<Station*>: the searched copies
    m_allStations,   \* QList<Station*>: the catalog
    m_sensors,       \* QVariantList of {paramName, sensorId}
    m_sensorData,    \* QVariantMap: key (QString) -> QVariant (a list of samples, or invalid)
    stationsReply,   \* TRUE while the constructor's findAll request is in flight
    geocodeReplies,  \* bag of searched cities whose geocode request is in flight
    sensorsReplies,  \* bag of station ids whose sensor-list request is in flight
    dataReplies,     \* bag of sensor ids whose getData request is in flight
    selectedSensors, \* StationDialog.selectedSensors: key (sensor id as string) -> paramName
    selectionOrder,  \* history: the selected sensor ids, first selected first
    childStations,   \* Stations constructed with the MainWindow as parent by its user
    fetchLog,        \* history: which fetchSensorData/removeSensorData calls were made
    signals,         \* the MainWindow signals emitted by the last handler, in order
    last             \* the last handler that ran, with its inputs

vars == <<m_mapCenter, m_status, m_stations, m_allStations, m_sensors,
          m_sensorData, stationsReply, geocodeReplies, sensorsReplies,
          dataReplies, selectedSensors, selectionOrder, childStations, fetchLog,
          signals, last>>

searchVars == <<m_mapCenter, m_status, m_stations, m_allStations,
                stationsReply, geocodeReplies>>
sensorVars == <<m_sensors, sensorsReplies>>
dataVars == <<m_sensorData, dataReplies, fetchLog>>
uiVars == <<selectedSensors, selectionOrder>>

(***************************************************************************)
(* Bounds of the model.                                                    *)
(***************************************************************************)
MaxStations == 2        \* stations in one station-list response
MaxSeriesLen == 2       \* data points in one getData response
MaxInFlight == 2        \* requests of one kind outstanding at once
MaxChildren == 1        \* Stations constructed by the user of the MainWindow

(***************************************************************************)
(* QString helpers.                                                        *)
(***************************************************************************)
\* QChar::toLower on the letters used here; every other character is kept.
toLowerChar(c) ==
    CASE c = "N" -> "n"
      [] c = "S" -> "s"
      [] c = "Q" -> "q"
      [] c = "X" -> "x"
      [] OTHER -> c

\* QString::toLower
toLower(s) == [i \in 1..Len(s) |-> toLowerChar(s[i])]

\* QChar::isSpace on the characters used here
isSpace(c) == c \in {" ", "\t", "\n"}

RECURSIVE simplifiedFrom(_, _, _)
simplifiedFrom(s, i, acc) ==
    IF i > Len(s)
    THEN IF acc # <<>> /\ acc[Len(acc)] = " " THEN SubSeq(acc, 1, Len(acc) - 1) ELSE acc
    ELSE IF isSpace(s[i])
         THEN IF acc = <<>> \/ acc[Len(acc)] = " "
              THEN simplifiedFrom(s, i + 1, acc)
              ELSE simplifiedFrom(s, i + 1, Append(acc, " "))
         ELSE simplifiedFrom(s, i + 1, Append(acc, s[i]))

\* QString::simplified: no leading or trailing whitespace, every inner run
\* of whitespace replaced by one space.
simplified(s) == simplifiedFrom(s, 1, <<>>)

\* Mutant: the comparison ignores letter case only.
normalizedCityCaseOnly(s) == toLower(s)

\* The normalisation both sides of the city comparison go through.
normalizedCity(s) == simplified(toLower(s))

Digit(d) == <<"0", "1", "2", "3", "4", "5", "6", "7", "8", "9">>[d + 1]

RECURSIVE numberDigits(_)
numberDigits(n) ==
    IF n < 10 THEN <<Digit(n)>> ELSE Append(numberDigits(n \div 10), Digit(n % 10))

\* QString::number(int): the decimal digits, with a leading minus sign.
QStringNumber(n) == IF n < 0 THEN <<"-">> \o numberDigits(-n) ELSE numberDigits(n)

\* QString::toDouble on the coordinate strings the providers send here; a string
\* that is no number converts to 0.
toDouble(s) ==
    CASE s = "50" -> 50
      [] s = "52" -> 52
      [] s = "19" -> 19
      [] s = "20" -> 20
      [] s = "21" -> 21
      [] s = "91" -> 91
      [] OTHER -> 0

(***************************************************************************)
(* QGeoCoordinate.                                                         *)
(***************************************************************************)
\* The coordinate whose latitude and longitude are both NaN.
InvalidCoordinate == <<>>

\* QGeoCoordinate(lat, lon) of whole degrees: an out-of-range latitude or
\* longitude gives the invalid coordinate.
QGeoCoordinate(lat, lon) ==
    IF lat >= -90 /\ lat <= 90 /\ lon >= -180 /\ lon <= 180
    THEN <<lat * 10000, lon * 10000>>
    ELSE InvalidCoordinate

\* m_mapCenter(52.2297, 21.0122): the centre a new MainWindow has.
DefaultMapCenter == <<522297, 210122>>

GridLats == <<0, 500000, 520000>>
GridLons == <<0, 190000, 200000, 210000>>

IndexOf(seq, x) == CHOOSE i \in 1..Len(seq) : seq[i] = x

GridIndex(c) == (IndexOf(GridLats, c[1]) - 1) * Len(GridLons) + IndexOf(GridLons, c[2])

\* Great-circle distances in whole metres between the grid points
\* GridLats x GridLons (haversine, Earth's mean radius 6371.0072 km).
HaversineMetres == <<
  <<0, 2112705, 2223901, 2335096, 5559752, 5845717, 5875707, 5907056, 5782142, 6049039, 6077099, 6106443>>,
  <<2112705, 0, 111195, 222390, 5845717, 5559752, 5560566, 5563008, 6049039, 5782142, 5782900, 5785174>>,
  <<2223901, 111195, 0, 111195, 5875707, 5560566, 5559752, 5560566, 6077099, 5782900, 5782142, 5782900>>,
  <<2335096, 222390, 111195, 0, 5907056, 5563008, 5560566, 5559752, 6106443, 5785174, 5782900, 5782142>>,
  <<5559752, 5845717, 5875707, 5907056, 0, 1354356, 1425219, 1496018, 222390, 1344026, 1412459, 1480911>>,
  <<5845717, 5559752, 5560566, 5563008, 1354356, 0, 71474, 142945, 1344026, 222390, 233133, 262740>>,
  <<5875707, 5560566, 5559752, 5560566, 1425219, 71474, 0, 71474, 1412459, 233133, 222390, 233133>>,
  <<5907056, 5563008, 5560566, 5559752, 1496018, 142945, 71474, 0, 1480911, 262740, 233133, 222390>>,
  <<5782142, 6049039, 6077099, 6106443, 222390, 1344026, 1412459, 1480911, 0, 1296998, 1364837, 1432611>>,
  <<6049039, 5782142, 5782900, 5785174, 1344026, 222390, 233133, 262740, 1296998, 0, 68457, 136912>>,
  <<6077099, 5782900, 5782142, 5782900, 1412459, 233133, 222390, 233133, 1364837, 68457, 0, 68457>>,
  <<6106443, 5785174, 5782900, 5782142, 1480911, 262740, 233133, 222390, 1432611, 136912, 68457, 0>>
>>

\* QGeoCoordinate::distanceTo: 0 when either coordinate is invalid.
distanceTo(a, b) ==
    IF a = InvalidCoordinate \/ b = InvalidCoordinate
    THEN 0
    ELSE HaversineMetres[GridIndex(a)][GridIndex(b)]

\* std::numeric_limits<double>::max(), above every distance on Earth.
DoubleMax == 1000000000

(***************************************************************************)
(* Station objects and the JSON the providers deliver.                     *)
(***************************************************************************)
\* Station(id, name, city, addr, latitude, longitude, searched, parent)
Station(id, name, city, addr, latitude, longitude, searched) ==
    [stationId |-> id, stationName |-> name, cityName |-> city, address |-> addr,
     lat |-> latitude, lon |-> longitude, isSearched |-> searched]

\* Station::setIsSearched
setIsSearched(station, searched) == [station EXCEPT !.isSearched = searched]

JStation(id, name, city, street, lat, lon) ==
    [id |-> id, stationName |-> name, city |-> city, addressStreet |-> street,
     gegrLat |-> lat, gegrLon |-> lon]

\* The station objects a findAll response is made of: two stations of the same
\* city written differently and lying at the same distance from (50, 20), a
\* second object with id 1 in another city, and a station of a third city
\* whose latitude is out of range.
StationNS1 == JStation(1, "S1", <<"N", " ", "S">>, "a1", "50", "19")
StationNS2 == JStation(2, "S2", <<" ", "n", "\t", " ", "s">>, "a2", "50", "21")
StationDup == JStation(1, "S4", <<"Q">>, "a4", "52", "20")
StationBad == JStation(5, "S5", <<"n", "s">>, "a5", "91", "20")

StationPool == {StationNS1, StationNS2, StationDup, StationBad}

RECURSIVE SeqsUpTo(_, _)
SeqsUpTo(S, n) ==
    IF n = 0 THEN {<<>>}
    ELSE LET shorter == SeqsUpTo(S, n - 1)
         IN shorter \cup {Append(s, x) : s \in {t \in shorter : Len(t) = n - 1}, x \in S}

StationListResponses == SeqsUpTo(StationPool, MaxStations)

\* The city names typed into the search field.
Cities ==
    { <<"n", " ", "s">>, <<"N", " ", " ", "S", " ">>, <<"n", "s">>, <<"X">> }

JPlace(lat, lon) == [lat |-> lat, lon |-> lon]

\* The result arrays the geocoder delivers.
GeocodeResponses ==
    { <<>>,
      <<JPlace("50", "20")>>,
      <<JPlace("52", "21"), JPlace("50", "20")>>,
      <<JPlace("", "abc")>> }

ErrorString == <<"e", "r", "r">>

(***************************************************************************)
(* Construction.                                                           *)
(***************************************************************************)
NoHandler == [op |-> "MainWindow", ok |-> TRUE, key |-> <<>>]

\* MainWindow::MainWindow: the map is centred on Warsaw (52.2297, 21.0122) and
\* the findAll request is issued.
Init ==
    /\ m_mapCenter = DefaultMapCenter
    /\ m_status = <<"Wprowadz nazwe miasta i kliknij Szukaj">>
    /\ m_stations = <<>>
    /\ m_allStations = <<>>
    /\ m_sensors = <<>>
    /\ m_sensorData = <<>>
    /\ stationsReply = TRUE
    /\ geocodeReplies = EmptyBag
    /\ sensorsReplies = EmptyBag
    /\ dataReplies = EmptyBag
    /\ selectedSensors = <<>>
    /\ selectionOrder = <<>>
    /\ childStations = <<>>
    /\ fetchLog = [issued |-> {}, removedSinceFetch |-> {}, removedSinceReply |-> {}]
    /\ signals = <<>>
    /\ last = NoHandler

Send(bag, x) == bag (+) SetToBag({x})
Deliver(bag, x) == bag (-) SetToBag({x})

(***************************************************************************)
(* Station search.                                                         *)
(***************************************************************************)
\* MainWindow::searchCity
searchCity(city) ==
    /\ BagCardinality(geocodeReplies) < MaxInFlight
    /\ m_status' = <<"Wyszukiwanie: ", city, "...">>
    /\ geocodeReplies' = Send(geocodeReplies, city)
    /\ signals' = <<"statusChanged">>
    /\ last' = [op |-> "searchCity", ok |-> TRUE, key |-> city]
    /\ UNCHANGED <<m_mapCenter, m_stations, m_allStations, stationsReply>>
    /\ UNCHANGED <<sensorVars, dataVars>>
    /\ UNCHANGED <<uiVars, childStations>>

\* The body of MainWindow::updateStationSearchStatus on a catalog.
setSearchStatus(allStations, stationId, isSearched) ==
    [i \in 1..Len(allStations) |->
        IF allStations[i].stationId = stationId
        THEN setIsSearched(allStations[i], isSearched)
        ELSE allStations[i]]

\* Mutant: the flags of the previous search are kept.
resetSearchedSkipped(allStations) == allStations

\* The loop that resets isSearched on every catalog station.
resetSearched(allStations) ==
    [i \in 1..Len(allStations) |-> setIsSearched(allStations[i], FALSE)]

\* The copy of a catalog station that is put into m_stations.
searchedStation(station) ==
    Station(station.stationId, station.stationName, station.cityName,
            station.address, station.lat, station.lon, TRUE)

\* The loop over the catalog that collects the stations of the searched city:
\* from index i on, with the result so far in acc.
RECURSIVE exactMatches(_, _, _)
exactMatches(normalizedSearchedCity, i, acc) ==
    IF i > Len(acc.all) THEN acc
    ELSE LET station == acc.all[i]
             stationCity == normalizedCity(station.cityName)
         IN IF stationCity = normalizedSearchedCity
            THEN exactMatches(normalizedSearchedCity, i + 1,
                     [stations |-> Append(acc.stations, searchedStation(station)),
                      all |-> setSearchStatus(acc.all, station.stationId, TRUE),
                      sig |-> Append(acc.sig, "allStationsChanged")])
            ELSE exactMatches(normalizedSearchedCity, i + 1, acc)

\* Mutant: the loop never lowers minDistance.
RECURSIVE closestStationStaleMin(_, _, _, _, _)
closestStationStaleMin(allStations, cityCoord, i, closest, minDistance) ==
    IF i > Len(allStations) THEN closest
    ELSE LET stationCoord == QGeoCoordinate(allStations[i].lat, allStations[i].lon)
             distance == distanceTo(cityCoord, stationCoord)
         IN IF distance < minDistance
            THEN closestStationStaleMin(allStations, cityCoord, i + 1, i, minDistance)
            ELSE closestStationStaleMin(allStations, cityCoord, i + 1, closest, minDistance)

\* Mutant: a station as close as the closest so far replaces it.
RECURSIVE closestStationLastWins(_, _, _, _, _)
closestStationLastWins(allStations, cityCoord, i, closest, minDistance) ==
    IF i > Len(allStations) THEN closest
    ELSE LET stationCoord == QGeoCoordinate(allStations[i].lat, allStations[i].lon)
             distance == distanceTo(cityCoord, stationCoord)
         IN IF distance <= minDistance
            THEN closestStationLastWins(allStations, cityCoord, i + 1, i, distance)
            ELSE closestStationLastWins(allStations, cityCoord, i + 1, closest, minDistance)

\* The loop that finds the catalog station closest to cityCoord: the index of
\* the closest station so far (0 for nullptr) and its distance.
RECURSIVE closestStation(_, _, _, _, _)
closestStation(allStations, cityCoord, i, closest, minDistance) ==
    IF i > Len(allStations) THEN closest
    ELSE LET stationCoord == QGeoCoordinate(allStations[i].lat, allStations[i].lon)
             distance == distanceTo(cityCoord, stationCoord)
         IN IF distance < minDistance
            THEN closestStation(allStations, cityCoord, i + 1, i, distance)
            ELSE closestStation(allStations, cityCoord, i + 1, closest, minDistance)

\* The branch taken when stations of the searched city were found.
exactResult(lat, lon, exact, searchedCity) ==
    [mapCenter |-> QGeoCoordinate(lat, lon),
     stations |-> exact.stations,
     all |-> exact.all,
     status |-> <<"Znaleziono ", QStringNumber(Len(exact.stations)),
                  " stacji w ", searchedCity, ".">>,
     sig |-> exact.sig \o <<"stationsChanged", "statusChanged">>]

\* The branch taken when no station of the searched city was found and the
\* closest station is the one at index closest of the catalog.
nearestResult(exact, closest, searchedCity) ==
    [mapCenter |-> QGeoCoordinate(exact.all[closest].lat, exact.all[closest].lon),
     stations |-> <<searchedStation(exact.all[closest])>>,
     all |-> setSearchStatus(exact.all, exact.all[closest].stationId, TRUE),
     status |-> <<"Nie znaleziono stacji w ", searchedCity,
                  ". Najblizsza stacja znajduje sie w ",
                  exact.all[closest].cityName, ".">>,
     sig |-> exact.sig \o <<"allStationsChanged", "mapCenterChanged",
                            "stationsChanged", "statusChanged">>]

\* Mutant: latitude and longitude are passed in the wrong order.
notFoundResultSwapped(lat, lon, exact, searchedCity) ==
    [mapCenter |-> QGeoCoordinate(lon, lat),
     stations |-> <<>>,
     all |-> exact.all,
     status |-> <<"Nie znaleziono stacji w ", searchedCity, ".">>,
     sig |-> exact.sig \o <<"stationsChanged", "statusChanged">>]

\* The branch taken when there is no closest station (closestStation is nullptr).
notFoundResult(lat, lon, exact, searchedCity) ==
    [mapCenter |-> QGeoCoordinate(lat, lon),
     stations |-> <<>>,
     all |-> exact.all,
     status |-> <<"Nie znaleziono stacji w ", searchedCity, ".">>,
     sig |-> exact.sig \o <<"stationsChanged", "statusChanged">>]

\* The state MainWindow::onGeocodeReply leaves after a reply without error
\* whose result array is not empty: only the first result is used.
geocodeResult(allStations, searchedCity, results) ==
    LET result == Head(results)
        lat == toDouble(result.lat)
        lon == toDouble(result.lon)
        cleared == [stations |-> <<>>, all |-> resetSearched(allStations),
                    sig |-> <<"mapCenterChanged">>]
        exact == exactMatches(normalizedCity(searchedCity), 1, cleared)
        closest == closestStation(exact.all, QGeoCoordinate(lat, lon), 1, 0, DoubleMax)
    IN IF exact.stations # <<>>
       THEN exactResult(lat, lon, exact, searchedCity)
       ELSE IF closest # 0
            THEN nearestResult(exact, closest, searchedCity)
            ELSE notFoundResult(lat, lon, exact, searchedCity)

\* The ids of the catalog stations whose isSearched flag is set.
searchedIds(allStations) ==
    {allStations[i].stationId : i \in {n \in 1..Len(allStations) : allStations[n].isSearched}}

\* Mutant: the result set is cleared before the reply's error is looked at.
onGeocodeReplyErrorClears(searchedCity) ==
    /\ BagIn(searchedCity, geocodeReplies)
    /\ geocodeReplies' = Deliver(geocodeReplies, searchedCity)
    /\ m_status' = <<"Blad wyszukiwania: ", ErrorString>>
    /\ m_stations' = <<>>
    /\ signals' = <<"statusChanged">>
    /\ last' = [op |-> "onGeocodeReply", ok |-> FALSE, key |-> searchedCity]
    /\ UNCHANGED <<m_mapCenter, m_allStations, stationsReply>>
    /\ UNCHANGED <<sensorVars, dataVars>>
    /\ UNCHANGED <<uiVars, childStations>>

\* MainWindow::onGeocodeReply, the reply carrying an error.
onGeocodeReplyError(searchedCity) ==
    /\ BagIn(searchedCity, geocodeReplies)
    /\ geocodeReplies' = Deliver(geocodeReplies, searchedCity)
    /\ m_status' = <<"Blad wyszukiwania: ", ErrorString>>
    /\ signals' = <<"statusChanged">>
    /\ last' = [op |-> "onGeocodeReply", ok |-> FALSE, key |-> searchedCity]
    /\ UNCHANGED <<m_mapCenter, m_stations, m_allStations, stationsReply>>
    /\ UNCHANGED <<sensorVars, dataVars>>
    /\ UNCHANGED <<uiVars, childStations>>

\* Mutant: the stations found are added to the result set of the search
\* completed before.
onGeocodeReplyMerging(searchedCity, results) ==
    /\ BagIn(searchedCity, geocodeReplies)
    /\ geocodeReplies' = Deliver(geocodeReplies, searchedCity)
    /\ IF results = <<>>
       THEN /\ m_status' = <<"Nie znaleziono miasta.">>
            /\ signals' = <<"statusChanged">>
            /\ last' = [op |-> "onGeocodeReply", ok |-> FALSE, key |-> searchedCity]
            /\ UNCHANGED <<m_mapCenter, m_stations, m_allStations>>
       ELSE LET r == geocodeResult(m_allStations, searchedCity, results)
            IN /\ m_mapCenter' = r.mapCenter
               /\ m_stations' = m_stations \o r.stations
               /\ m_allStations' = r.all
               /\ m_status' = r.status
               /\ signals' = r.sig
               /\ last' = [op |-> "onGeocodeReply", ok |-> TRUE, key |-> searchedCity,
                           results |-> results, centerBefore |-> m_mapCenter,
                           searchedBefore |-> searchedIds(m_allStations),
                           pair |-> last.op = "onGeocodeReply",
                           firstOk |-> last.op = "onGeocodeReply" /\ last.ok]
    /\ UNCHANGED stationsReply
    /\ UNCHANGED <<sensorVars, dataVars>>
    /\ UNCHANGED <<uiVars, childStations>>

\* MainWindow::onGeocodeReply, the reply without error.  In last, pair tells
\* that the step before processed a geocode reply too, the two searches
\* having been in flight together, and firstOk that that search completed.
onGeocodeReply(searchedCity, results) ==
    /\ BagIn(searchedCity, geocodeReplies)
    /\ geocodeReplies' = Deliver(geocodeReplies, searchedCity)
    /\ IF results = <<>>
       THEN /\ m_status' = <<"Nie znaleziono miasta.">>
            /\ signals' = <<"statusChanged">>
            /\ last' = [op |-> "onGeocodeReply", ok |-> FALSE, key |-> searchedCity]
            /\ UNCHANGED <<m_mapCenter, m_stations, m_allStations>>
       ELSE LET r == geocodeResult(m_allStations, searchedCity, results)
            IN /\ m_mapCenter' = r.mapCenter
               /\ m_stations' = r.stations
               /\ m_allStations' = r.all
               /\ m_status' = r.status
               /\ signals' = r.sig
               /\ last' = [op |-> "onGeocodeReply", ok |-> TRUE, key |-> searchedCity,
                           results |-> results, centerBefore |-> m_mapCenter,
                           searchedBefore |-> searchedIds(m_allStations),
                           pair |-> last.op = "onGeocodeReply",
                           firstOk |-> last.op = "onGeocodeReply" /\ last.ok]
    /\ UNCHANGED stationsReply
    /\ UNCHANGED <<sensorVars, dataVars>>
    /\ UNCHANGED <<uiVars, childStations>>

\* The Station built from one object of the findAll response.
stationFromJson(obj) ==
    Station(obj.id, obj.stationName, obj.city, obj.addressStreet,
            toDouble(obj.gegrLat), toDouble(obj.gegrLon), FALSE)

\* MainWindow::onStationsReply, the reply carrying an error.
onStationsReplyError ==
    /\ stationsReply
    /\ stationsReply' = FALSE
    /\ m_status' = <<"Blad pobierania stacji: ", ErrorString>>
    /\ signals' = <<"statusChanged">>
    /\ last' = [op |-> "onStationsReply", ok |-> FALSE, key |-> <<>>]
    /\ UNCHANGED <<m_mapCenter, m_stations, m_allStations, geocodeReplies>>
    /\ UNCHANGED <<sensorVars, dataVars>>
    /\ UNCHANGED <<uiVars, childStations>>

\* MainWindow::onStationsReply, the reply without error.
onStationsReply(stations) ==
    /\ stationsReply
    /\ stationsReply' = FALSE
    /\ m_allStations' = [i \in 1..Len(stations) |-> stationFromJson(stations[i])]
    /\ signals' = <<"allStationsChanged">>
    /\ last' = [op |-> "onStationsReply", ok |-> TRUE, key |-> <<>>]
    /\ UNCHANGED <<m_mapCenter, m_status, m_stations, geocodeReplies>>
    /\ UNCHANGED <<sensorVars, dataVars>>
    /\ UNCHANGED <<uiVars, childStations>>

\* The ids updateStationSearchStatus is called with and Stations are
\* constructed with.
SearchedIds == {1, 2, 5}

\* new Station(id, "Test Station", "Test City", "Test Address", 50.0, 20.0,
\* false, &mainWindow): the Station becomes a QObject child of the MainWindow
\* and is not put into any of its lists.
newStation(id) ==
    /\ Len(childStations) < MaxChildren
    /\ childStations' = Append(childStations,
                               Station(id, "Test Station", <<"T">>, "Test Address",
                                       50, 20, FALSE))
    /\ signals' = <<>>
    /\ last' = [op |-> "Station", ok |-> TRUE, key |-> id]
    /\ UNCHANGED <<searchVars, sensorVars, dataVars, uiVars>>

\* MainWindow::updateStationSearchStatus, called as a slot.
updateStationSearchStatus(stationId, isSearched) ==
    /\ m_allStations' = setSearchStatus(m_allStations, stationId, isSearched)
    /\ signals' = <<"allStationsChanged">>
    /\ last' = [op |-> "updateStationSearchStatus", ok |-> TRUE, key |-> stationId,
                isSearched |-> isSearched]
    /\ UNCHANGED <<m_mapCenter, m_status, m_stations, stationsReply, geocodeReplies>>
    /\ UNCHANGED <<sensorVars, dataVars, uiVars, childStations>>

(***************************************************************************)
(* Sensor list of the selected station.                                    *)
(***************************************************************************)
StationIds == {1, 2}

JSensor(id, paramName) == [id |-> id, param |-> [paramName |-> paramName]]

\* The arrays the sensors endpoint delivers.
SensorListResponses ==
    { <<>>,
      <<JSensor(3, "PM10")>>,
      <<JSensor(12, "NO2"), JSensor(3, "PM10")>> }

\* The QVariantMap built from one object of the sensors response.
sensorInfo(obj) == [paramName |-> obj.param.paramName, sensorId |-> obj.id]

\* MainWindow::fetchSensors
fetchSensors(stationId) ==
    /\ BagCardinality(sensorsReplies) < MaxInFlight
    /\ sensorsReplies' = Send(sensorsReplies, stationId)
    /\ signals' = <<>>
    /\ last' = [op |-> "fetchSensors", ok |-> TRUE, key |-> stationId]
    /\ UNCHANGED <<m_sensors, searchVars, dataVars>>
    /\ UNCHANGED <<uiVars, childStations>>

\* MainWindow::onSensorsReply, the reply carrying an error.
onSensorsReplyError(stationId) ==
    /\ BagIn(stationId, sensorsReplies)
    /\ sensorsReplies' = Deliver(sensorsReplies, stationId)
    /\ m_sensors' = <<>>
    /\ signals' = <<"sensorsChanged">>
    /\ last' = [op |-> "onSensorsReply", ok |-> FALSE, key |-> stationId]
    /\ UNCHANGED <<searchVars, dataVars>>
    /\ UNCHANGED <<uiVars, childStations>>

\* MainWindow::onSensorsReply, the reply without error.
onSensorsReply(stationId, sensors) ==
    /\ BagIn(stationId, sensorsReplies)
    /\ sensorsReplies' = Deliver(sensorsReplies, stationId)
    /\ m_sensors' = [i \in 1..Len(sensors) |-> sensorInfo(sensors[i])]
    /\ signals' = <<"sensorsChanged">>
    /\ last' = [op |-> "onSensorsReply", ok |-> TRUE, key |-> stationId]
    /\ UNCHANGED <<searchVars, dataVars>>
    /\ UNCHANGED <<uiVars, childStations>>

(***************************************************************************)
(* Sensor data: the map from QString::number(sensorId) to the series.      *)
(***************************************************************************)
SensorIds == {3, 12}

\* The ids removeSensorData is called with: the sensor ids, and an id that is
\* never fetched.
RemovedIds == SensorIds \cup {999}

\* JSON values: a number, a string, null, and a member that is absent.
JNumber(n) == [type |-> "number", n |-> n]
JString(str) == [type |-> "string", s |-> str]
JNull == [type |-> "null"]
JUndefined == [type |-> "undefined"]

JPoint(date, value) == [date |-> date, value |-> value]

\* The objects a getData "values" array is made of: a measured value, a null
\* value, and an object without date.
DataPointPool ==
    { JPoint(JString("2025-01-01 01:00:00"), JNumber(5)),
      JPoint(JString("2025-01-01 00:00:00"), JNull),
      JPoint(JUndefined, JNumber(10)) }

DataResponses == SeqsUpTo(DataPointPool, MaxSeriesLen)

\* QVariant: a double, a null pointer, or the invalid QVariant.
QVariantDouble(d) == [type |-> "double", d |-> d]
QVariantNull == [type |-> "nullptr"]
QVariantInvalid == [type |-> "invalid"]

\* QVariant holding a QVariantList.
QVariantList(list) == [type |-> "QVariantList", list |-> list]

\* QVariant::toList: the list held, or the empty list for any other QVariant.
toList(v) == IF v.type = "QVariantList" THEN v.list ELSE <<>>

\* QJsonValue::toString: the string, or the empty string for any other value.
jsonToString(v) == IF v.type = "string" THEN v.s ELSE ""

\* QJsonValue::toVariant: a double for a number, a null QVariant for null, an
\* invalid QVariant for an absent member.
jsonToVariant(v) ==
    CASE v.type = "number" -> QVariantDouble(v.n)
      [] v.type = "null" -> QVariantNull
      [] v.type = "string" -> [type |-> "QString", s |-> v.s]
      [] OTHER -> QVariantInvalid

\* QJsonObject::operator[] on an object that is not const: a member that is
\* absent is inserted with the value Null, and that value is returned.
jsonMember(v) == IF v.type = "undefined" THEN JNull ELSE v

\* The QVariantMap built from one object of the "values" array; dataPoint is
\* a QJsonObject that is not const.
dataPoint(obj) ==
    [date |-> jsonToString(jsonMember(obj.date)),
     value |-> jsonToVariant(jsonMember(obj.value))]

\* The QVariantList built by the loop over the "values" array.
sensorDataList(values) == [i \in 1..Len(values) |-> dataPoint(values[i])]

\* QMap::remove(key)
mapRemove(map, key) == [k \in (DOMAIN map) \ {key} |-> map[k]]

\* QMap::operator[](key) = value
mapInsert(map, key, value) ==
    [k \in (DOMAIN map) \cup {key} |-> IF k = key THEN value ELSE map[k]]

\* Mutant: a failed reply is ignored.
sensorDataAfterErrorKept(map, sensorId) == map

\* m_sensorData after the reply for sensorId that carries an error.
sensorDataAfterError(map, sensorId) == mapRemove(map, QStringNumber(sensorId))

\* Mutant: the data points are appended to the series already held.
sensorDataAfterReplyAppended(map, sensorId, values) ==
    mapInsert(map, QStringNumber(sensorId),
              QVariantList((IF QStringNumber(sensorId) \in DOMAIN map
               THEN toList(map[QStringNumber(sensorId)]) ELSE <<>>)
                 \o sensorDataList(values)))

\* Mutant: the map is rebuilt from the reply alone.
sensorDataAfterReplyAlone(map, sensorId, values) ==
    mapInsert(<<>>, QStringNumber(sensorId), QVariantList(sensorDataList(values)))

\* Mutant: the data points are put in front of the series already held.
sensorDataAfterReplyPrepended(map, sensorId, values) ==
    mapInsert(map, QStringNumber(sensorId),
              QVariantList(sensorDataList(values)
                             \o (IF QStringNumber(sensorId) \in DOMAIN map
                                 THEN toList(map[QStringNumber(sensorId)]) ELSE <<>>)))

\* Mutant: a reply does not overwrite the series an earlier reply stored.
sensorDataAfterReplyKeepFirst(map, sensorId, values) ==
    IF QStringNumber(sensorId) \in DOMAIN map
    THEN map
    ELSE mapInsert(map, QStringNumber(sensorId), QVariantList(sensorDataList(values)))

\* m_sensorData after the reply for sensorId without error.
sensorDataAfterReply(map, sensorId, values) ==
    mapInsert(map, QStringNumber(sensorId), QVariantList(sensorDataList(values)))

\* Mutant: the key removed is the number's first digit.
sensorDataAfterRemoveFirstDigit(map, sensorId) ==
    mapRemove(map, <<Head(QStringNumber(sensorId))>>)

\* Mutant: removing clears the map.
sensorDataAfterRemoveAll(map, sensorId) == <<>>

\* m_sensorData after removeSensorData(sensorId).
sensorDataAfterRemove(map, sensorId) == mapRemove(map, QStringNumber(sensorId))

\* Mutant: sensorDataChanged is emitted before the map is assigned.
sensorDataAtEmitStale(before, after) == before

\* The map the slots connected to sensorDataChanged read: they run inside
\* the emit statement, which follows the statement that changes the map.
sensorDataAtEmit(before, after) == after

\* MainWindow::fetchSensorData
fetchSensorData(sensorId) ==
    /\ BagCardinality(dataReplies) < MaxInFlight
    /\ dataReplies' = Send(dataReplies, sensorId)
    /\ fetchLog' = [fetchLog EXCEPT !.issued = @ \cup {sensorId},
                                    !.removedSinceFetch = @ \ {sensorId}]
    /\ signals' = <<>>
    /\ last' = [op |-> "fetchSensorData", ok |-> TRUE, key |-> sensorId]
    /\ UNCHANGED <<m_sensorData, searchVars, sensorVars>>
    /\ UNCHANGED <<uiVars, childStations>>

\* MainWindow::onSensorDataReply, the reply carrying an error.  In last, pair
\* tells that the step before processed a reply for the same sensor, the two
\* requests having been in flight together, and firstOk that that reply was
\* stored.
onSensorDataReplyError(sensorId) ==
    /\ BagIn(sensorId, dataReplies)
    /\ dataReplies' = Deliver(dataReplies, sensorId)
    /\ m_sensorData' = sensorDataAfterError(m_sensorData, sensorId)
    /\ UNCHANGED fetchLog
    /\ signals' = <<"sensorDataChanged">>
    /\ last' = [op |-> "onSensorDataReply", ok |-> FALSE, key |-> sensorId,
                pair |-> last.op = "onSensorDataReply" /\ last.key = sensorId,
                firstOk |-> last.op = "onSensorDataReply" /\ last.key = sensorId /\ last.ok,
                had |-> QStringNumber(sensorId) \in DOMAIN m_sensorData,
                seen |-> sensorDataAtEmit(m_sensorData, m_sensorData')]
    /\ UNCHANGED <<searchVars, sensorVars>>
    /\ UNCHANGED <<uiVars, childStations>>

\* MainWindow::onSensorDataReply, the reply without error.
onSensorDataReply(sensorId, values) ==
    /\ BagIn(sensorId, dataReplies)
    /\ dataReplies' = Deliver(dataReplies, sensorId)
    /\ m_sensorData' = sensorDataAfterReply(m_sensorData, sensorId, values)
    /\ fetchLog' = [fetchLog EXCEPT !.removedSinceReply = @ \ {sensorId}]
    /\ signals' = <<"sensorDataChanged">>
    /\ last' = [op |-> "onSensorDataReply", ok |-> TRUE, key |-> sensorId,
                values |-> values,
                pair |-> last.op = "onSensorDataReply" /\ last.key = sensorId,
                firstOk |-> last.op = "onSensorDataReply" /\ last.key = sensorId /\ last.ok,
                had |-> QStringNumber(sensorId) \in DOMAIN m_sensorData,
                same |-> m_sensorData' = m_sensorData,
                seen |-> sensorDataAtEmit(m_sensorData, m_sensorData')]
    /\ UNCHANGED <<searchVars, sensorVars>>
    /\ UNCHANGED <<uiVars, childStations>>

\* Mutant: removing a sensor's data aborts its requests in flight.
removeSensorDataCancelling(sensorId) ==
    /\ m_sensorData' = sensorDataAfterRemove(m_sensorData, sensorId)
    /\ dataReplies' = [k \in (DOMAIN dataReplies) \ {sensorId} |-> dataReplies[k]]
    /\ fetchLog' = IF sensorId \in fetchLog.issued
                   THEN [fetchLog EXCEPT !.removedSinceFetch = @ \cup {sensorId},
                                         !.removedSinceReply = @ \cup {sensorId}]
                   ELSE fetchLog
    /\ signals' = <<"sensorDataChanged">>
    /\ last' = [op |-> "removeSensorData", ok |-> TRUE, key |-> sensorId,
                had |-> QStringNumber(sensorId) \in DOMAIN m_sensorData,
                seen |-> sensorDataAtEmit(m_sensorData, m_sensorData')]
    /\ UNCHANGED <<searchVars, sensorVars>>
    /\ UNCHANGED <<uiVars, childStations>>

\* MainWindow::removeSensorData
removeSensorData(sensorId) ==
    /\ m_sensorData' = sensorDataAfterRemove(m_sensorData, sensorId)
    /\ fetchLog' = IF sensorId \in fetchLog.issued
                   THEN [fetchLog EXCEPT !.removedSinceFetch = @ \cup {sensorId},
                                         !.removedSinceReply = @ \cup {sensorId}]
                   ELSE fetchLog
    /\ signals' = <<"sensorDataChanged">>
    /\ last' = [op |-> "removeSensorData", ok |-> TRUE, key |-> sensorId,
                had |-> QStringNumber(sensorId) \in DOMAIN m_sensorData,
                seen |-> sensorDataAtEmit(m_sensorData, m_sensorData')]
    /\ UNCHANGED <<dataReplies, searchVars, sensorVars>>
    /\ UNCHANGED <<uiVars, childStations>>

(***************************************************************************)
(* Saving a station to a file.                                             *)
(***************************************************************************)
\* The loop that looks the station up in the catalog, from index i: the index
\* of the first station with the id, 0 for nullptr.
RECURSIVE findStation(_, _, _)
findStation(allStations, stationId, i) ==
    IF i > Len(allStations) THEN 0
    ELSE IF allStations[i].stationId = stationId THEN i
         ELSE findStation(allStations, stationId, i + 1)

\* QMap::operator[](key) on a map that is not const: a key that is absent is
\* inserted with a default-constructed, invalid QVariant.
mapAccess(map, key) ==
    IF key \in DOMAIN map THEN map ELSE mapInsert(map, key, QVariantInvalid)

\* m_sensorData after the loop of saveStationData over the sensor list, from
\* index i: the loop reads m_sensorData[QString::number(sensorId)].
RECURSIVE sensorDataAfterSave(_, _, _)
sensorDataAfterSave(map, sensors, i) ==
    IF i > Len(sensors) THEN map
    ELSE sensorDataAfterSave(mapAccess(map, QStringNumber(sensors[i].sensorId)),
                             sensors, i + 1)

\* QVariant::toDouble: the number held, 0 for a QVariant that holds none.
variantToDouble(v) == IF v.type = "double" THEN v.d ELSE 0

\* The measurements array written for one sensor.
measurementsArray(data) ==
    [i \in 1..Len(data) |->
        [date |-> data[i].date, value |-> variantToDouble(data[i].value)]]

\* The sensors array written: one object per sensor of the sensor list.
sensorsArray(sensors, map) ==
    [i \in 1..Len(sensors) |->
        [sensorId |-> sensors[i].sensorId,
         paramName |-> sensors[i].paramName,
         measurements |->
            measurementsArray(
                toList(mapAccess(map, QStringNumber(sensors[i].sensorId))
                          [QStringNumber(sensors[i].sensorId)]))]]

\* The JSON object saveStationData writes.
stationDocument(station, stationId, cityName, address, saveDate, sensors, map) ==
    [stationId |-> stationId,
     stationName |-> station.stationName,
     cityName |-> cityName,
     address |-> address,
     latitude |-> station.lat,
     longitude |-> station.lon,
     saveDate |-> saveDate,
     sensors |-> sensorsArray(sensors, map)]

\* The readings of the clock saveStationData is run at: the date in ISO form
\* and in the form yyyyMMdd_HHmmss.
SaveTimes == { [saveDate |-> "2025-01-01T00:00:00", timestamp |-> "20250101_000000"] }

\* MainWindow::saveStationData, run at the time now; opened tells whether the
\* file could be opened for writing.  In last, file is the file written.
saveStationData(stationId, cityName, address, now, opened) ==
    LET found == findStation(m_allStations, stationId, 1)
        filename == <<"station_", QStringNumber(stationId), "_", now.timestamp, ".json">>
    IN /\ IF found = 0
          THEN /\ m_status' = <<"Blad: Stacja o ID ", QStringNumber(stationId),
                                " nie znaleziona.">>
               /\ UNCHANGED m_sensorData
               /\ last' = [op |-> "saveStationData", ok |-> FALSE, key |-> stationId,
                           file |-> <<>>]
          ELSE /\ m_sensorData' = sensorDataAfterSave(m_sensorData, m_sensors, 1)
               /\ m_status' = IF opened
                              THEN <<"Dane zapisano do pliku: ">> \o filename
                              ELSE <<"Blad: Nie mozna otworzyc pliku do zapisu: ">>
                                      \o filename
               /\ last' = [op |-> "saveStationData", ok |-> opened, key |-> stationId,
                           file |-> IF opened
                                    THEN <<[name |-> filename,
                                            document |->
                                               stationDocument(m_allStations[found],
                                                   stationId, cityName, address,
                                                   now.saveDate, m_sensors,
                                                   m_sensorData)]>>
                                    ELSE <<>>]
       /\ signals' = <<"statusChanged">>
       /\ UNCHANGED <<m_mapCenter, m_stations, m_allStations, stationsReply,
                      geocodeReplies>>
       /\ UNCHANGED <<sensorVars, dataReplies, fetchLog>>
       /\ UNCHANGED <<uiVars, childStations>>

\* The maps setSensorData is called with: the empty map, the map of the unit
\* test, and maps holding series of the sensors.
ArchivedMaps ==
    { <<>>,
      mapInsert(<<>>, <<"t", "e", "s", "t">>,
                QVariantList(<<[date |-> "2025-04-22", value |-> QVariantDouble(10)]>>)),
      mapInsert(<<>>, QStringNumber(3),
                QVariantList(<<[date |-> "2025-01-01 00:00:00",
                                value |-> QVariantDouble(5)]>>)),
      mapInsert(mapInsert(<<>>, QStringNumber(12), QVariantList(<<>>)),
                QStringNumber(999),
                QVariantList(<<[date |-> "2025-01-01 00:00:00",
                                value |-> QVariantNull]>>)) }

\* Mutant: the keys of the new map are merged into the map held.
sensorDataAfterSetMerged(map, data) ==
    [k \in (DOMAIN map) \cup (DOMAIN data) |-> IF k \in DOMAIN data THEN data[k] ELSE map[k]]

\* m_sensorData after setSensorData(data).
sensorDataAfterSet(map, data) == IF map # data THEN data ELSE map

\* The signals setSensorData(data) emits.
setSensorDataSignals(map, data) == IF map # data THEN <<"sensorDataChanged">> ELSE <<>>

\* MainWindow::setSensorData
setSensorData(data) ==
    /\ m_sensorData' = sensorDataAfterSet(m_sensorData, data)
    /\ signals' = setSensorDataSignals(m_sensorData, data)
    /\ last' = [op |-> "setSensorData", ok |-> TRUE, key |-> <<>>, data |-> data,
                changed |-> m_sensorData # data,
                seen |-> sensorDataAtEmit(m_sensorData, m_sensorData')]
    /\ UNCHANGED <<dataReplies, fetchLog, searchVars, sensorVars>>
    /\ UNCHANGED <<uiVars, childStations>>

(***************************************************************************)
(* StationDialog.qml: the selection of sensors and the chart.  The dialog  *)
(* is the one opened for station 1, after its sensor list has arrived; the *)
(* delegates of the list are not re-created afterwards, so a CheckBox is   *)
(* checked exactly when selectedSensors holds its sensor's key.            *)
(***************************************************************************)
\* property var colors
colors == <<"#4CAF50", "#FF0000", "#0000FF", "#FFA500", "#800080", "#00CED1">>

\* Number.MAX_VALUE, above every measured value.
NumberMaxValue == 1000000000

\* The property key a sensor id is converted to (Number.prototype.toString).
propertyKey(sensorId) == QStringNumber(sensorId)

DigitValue(c) == CHOOSE d \in 0..9 : Digit(d) = c

\* The array index a canonical numeric property key denotes.
RECURSIVE keyIndex(_)
keyIndex(key) ==
    IF key = <<>> THEN 0
    ELSE keyIndex(SubSeq(key, 1, Len(key) - 1)) * 10 + DigitValue(key[Len(key)])

\* Keys in ascending order of the array index they denote.
RECURSIVE ascendingKeys(_)
ascendingKeys(keys) ==
    IF keys = {} THEN <<>>
    ELSE LET first == CHOOSE k \in keys : \A o \in keys : keyIndex(k) <= keyIndex(o)
         IN <<first>> \o ascendingKeys(keys \ {first})

\* Object.keys(obj) of an object whose keys are all array indices: the keys
\* in ascending numeric order, whatever the order they were added in.
ObjectKeys(obj) == ascendingKeys(DOMAIN obj)

\* Array.prototype.indexOf: the first index (from 0) holding x, or -1.
indexOf(array, x) ==
    IF \E i \in 1..Len(array) : array[i] = x
    THEN (CHOOSE i \in 1..Len(array) :
             array[i] = x /\ \A j \in 1..(i - 1) : array[j] # x) - 1
    ELSE -1

\* The color binding of a delegate's marker; the chart strokes the line of
\* the sensor at the same index of Object.keys(selectedSensors) with the
\* same palette entry.
sensorColor(selected, sensorId) ==
    LET selectedIds == ObjectKeys(selected)
        index == indexOf(selectedIds, propertyKey(sensorId))
    IN IF index >= 0 /\ index < Len(colors) THEN colors[index + 1] ELSE "transparent"

\* isNaN(value) on the values a QVariant converts to: a double from JSON is
\* a number, null converts to 0, undefined to NaN.
isNaN(value) ==
    CASE value.type = "double" -> FALSE
      [] value.type = "nullptr" -> FALSE
      [] OTHER -> TRUE

\* value !== null && !isNaN(value)
isValidValue(value) == value.type # "nullptr" /\ ~isNaN(value)

MathMax(a, b) == IF a >= b THEN a ELSE b
MathMin(a, b) == IF a <= b THEN a ELSE b

\* The inner loop of onPaint over the samples of one series, from index j.
RECURSIVE scanValues(_, _, _)
scanValues(data, j, range) ==
    IF j > Len(data) THEN range
    ELSE LET value == data[j].value
         IN scanValues(data, j + 1,
                IF isValidValue(value)
                THEN [globalMaxValue |-> MathMax(range.globalMaxValue, value.d),
                      globalMinValue |-> MathMin(range.globalMinValue, value.d)]
                ELSE range)

\* var data = sensorData[sensorId]; !data: the map has no such key, or holds an
\* invalid QVariant, which is undefined in JavaScript; a list, also an empty
\* one, is an array and not false.
noData(sensorData, key) ==
    key \notin DOMAIN sensorData \/ sensorData[key].type # "QVariantList"

\* The outer loop of onPaint over the selected sensor ids, from index i
\* (i = 1 is the code's i === 0).
RECURSIVE scanSensors(_, _, _, _)
scanSensors(selectedSensorIds, sensorData, i, acc) ==
    IF i > Len(selectedSensorIds) THEN acc
    ELSE LET sensorId == selectedSensorIds[i]
         IN IF noData(sensorData, sensorId)
            THEN scanSensors(selectedSensorIds, sensorData, i + 1, acc)
            ELSE LET data == sensorData[sensorId].list
                     range == scanValues(data, 1, acc.range)
                 IN scanSensors(selectedSensorIds, sensorData, i + 1,
                        [range |-> range,
                         timePoints |-> IF i = 1
                                        THEN [j \in 1..Len(data) |-> data[j].date]
                                        ELSE acc.timePoints,
                         allDataPoints |-> Append(acc.allDataPoints, data)])

\* Mutant: a degenerate range is left as it is.
widenedRangeSkipped(range) == range

\* if (globalMaxValue === globalMinValue) { globalMaxValue += 1; globalMinValue -= 1 }
widenedRange(range) ==
    IF range.globalMaxValue = range.globalMinValue
    THEN [globalMaxValue |-> range.globalMaxValue + 1,
          globalMinValue |-> range.globalMinValue - 1]
    ELSE range

\* The points of one series that are drawn, from index i (i = 1 is the code's
\* i = 0): op is the canvas call the point is passed to (firstPoint is true
\* as long as no point was drawn), x is the fraction i / (data.length - 1) of the width, y the
\* fraction (value - globalMinValue) / (globalMaxValue - globalMinValue) of
\* the height, each kept as numerator and denominator.
RECURSIVE seriesPoints(_, _, _, _)
seriesPoints(data, range, i, points) ==
    IF i > Len(data) THEN points
    ELSE LET value == data[i].value
         IN IF ~isValidValue(value)
            THEN seriesPoints(data, range, i + 1, points)
            ELSE seriesPoints(data, range, i + 1,
                     Append(points,
                         [value |-> value.d,
                          i |-> i - 1,
                          op |-> IF points = <<>> THEN "moveTo" ELSE "lineTo",
                          x |-> [num |-> i - 1, den |-> Len(data) - 1],
                          y |-> [num |-> value.d - range.globalMinValue,
                                 den |-> range.globalMaxValue - range.globalMinValue]]))

\* The loop of onPaint that draws the series, from index s (s = 1 is the
\* code's s = 0).
RECURSIVE plottedLines(_, _, _, _, _)
plottedLines(selectedSensorIds, sensorData, range, s, lines) ==
    IF ~(s <= Len(selectedSensorIds) /\ s <= Len(colors)) THEN lines
    ELSE LET sensorId == selectedSensorIds[s]
         IN IF noData(sensorData, sensorId)
            THEN plottedLines(selectedSensorIds, sensorData, range, s + 1, lines)
            ELSE plottedLines(selectedSensorIds, sensorData, range, s + 1,
                     Append(lines,
                         [sensorId |-> sensorId,
                          strokeStyle |-> colors[s],
                          points |-> seriesPoints(sensorData[sensorId].list, range, 1, <<>>)]))

\* A timestamp "yyyy-mm-dd hh:mm:ss" in its parts.
DateTime(yyyy, mm, dd, hh, min, ss) ==
    [date |-> <<yyyy, mm, dd>>, time |-> <<hh, min, ss>>]

\* timePoints[i].split(" "), with both parts split again at "-" and ":", for
\* the timestamps of the replies; a string without a blank has no second
\* part, so that its time is undefined.
splitDateTime(timePoint) ==
    CASE timePoint = "2025-01-01 00:00:00" -> DateTime("2025", "01", "01", "00", "00", "00")
      [] timePoint = "2025-01-01 01:00:00" -> DateTime("2025", "01", "01", "01", "00", "00")
      [] timePoint = "2025-01-01 02:00:00" -> DateTime("2025", "01", "01", "02", "00", "00")
      [] timePoint = "2025-01-02 00:00:00" -> DateTime("2025", "01", "02", "00", "00", "00")
      [] timePoint = "2025-01-03 00:00:00" -> DateTime("2025", "01", "03", "00", "00", "00")
      [] timePoint = "2025-01-03 04:00:00" -> DateTime("2025", "01", "03", "04", "00", "00")
      [] timePoint = "2025-01-04 00:00:00" -> DateTime("2025", "01", "04", "00", "00", "00")
      [] OTHER -> [date |-> <<timePoint>>, time |-> <<>>]

\* parseInt of the two digits of an hour.
parseInt(hh) ==
    CASE hh = "00" -> 0
      [] hh = "01" -> 1
      [] hh = "02" -> 2
      [] hh = "04" -> 4

\* date[0].slice(2): the year without its first two characters.
sliceFrom2(yyyy) == CASE yyyy = "2025" -> "25"

\* The loop of onPaint that draws the dashed day lines, from index i (i = 1
\* is the code's i = 0): a line at the fraction i / (timePoints.length - 1)
\* of the width for every timestamp whose time is "00:00:00".
RECURSIVE dayMarkers(_, _, _)
dayMarkers(timePoints, i, markers) ==
    IF i > Len(timePoints) THEN markers
    ELSE LET time == splitDateTime(timePoints[i]).time
         IN IF time = <<"00", "00", "00">>
            THEN dayMarkers(timePoints, i + 1,
                     Append(markers,
                         [i |-> i - 1,
                          x |-> [num |-> i - 1, den |-> Len(timePoints) - 1]]))
            ELSE dayMarkers(timePoints, i + 1, markers)

\* The loop of onPaint that writes the labels of the time axis, from index i
\* (i = 1 is the code's i = 0).  A timestamp without a time part ends the
\* handler with a TypeError at time.split, the labels written so far staying
\* on the canvas.
RECURSIVE tickLabels(_, _, _, _)
tickLabels(timePoints, i, lastHour, labels) ==
    IF i > Len(timePoints) THEN labels
    ELSE LET dateTime == splitDateTime(timePoints[i])
             date == dateTime.date
             time == dateTime.time
         IN IF time = <<>> THEN labels
            ELSE LET hour == parseInt(time[1])
                     minutes == time[2]
                 IN IF hour % 4 = 0 /\ hour # lastHour
                    THEN tickLabels(timePoints, i + 1, hour,
                             Append(labels,
                                 [i |-> i - 1,
                                  x |-> [num |-> i - 1, den |-> Len(timePoints) - 1],
                                  timeLabel |-> (IF hour < 10
                                                 THEN <<"0">> \o numberDigits(hour)
                                                 ELSE numberDigits(hour))
                                                \o <<":", minutes>>,
                                  dateLabel |-> <<date[3], ".", date[2], ".",
                                                  sliceFrom2(date[1])>>]))
                    ELSE tickLabels(timePoints, i + 1, lastHour, labels)

\* chartCanvas.onPaint: what is drawn for a selection and a sensor-data map.
onPaint(selected, sensorData) ==
    LET selectedSensorIds == ObjectKeys(selected)
        initial == [range |-> [globalMaxValue |-> -NumberMaxValue,
                               globalMinValue |-> NumberMaxValue],
                    timePoints |-> <<>>, allDataPoints |-> <<>>]
    IN IF Len(selectedSensorIds) = 0 \/ DOMAIN sensorData = {}
       THEN [text |-> "Wybierz mierzone parametry aby wyswietlic odczyty.",
             range |-> initial.range, timePoints |-> <<>>, lines |-> <<>>,
             dayMarkers |-> <<>>, tickLabels |-> <<>>]
       ELSE LET scan == scanSensors(selectedSensorIds, sensorData, 1, initial)
                range == widenedRange(scan.range)
            IN IF Len(scan.timePoints) = 0
               THEN [text |-> "Brak danych czasowych.",
                     range |-> range, timePoints |-> <<>>, lines |-> <<>>,
                     dayMarkers |-> <<>>, tickLabels |-> <<>>]
               ELSE [text |-> "",
                     range |-> range, timePoints |-> scan.timePoints,
                     dayMarkers |-> dayMarkers(scan.timePoints, 1, <<>>),
                     lines |-> plottedLines(selectedSensorIds, sensorData, range, 1, <<>>),
                     tickLabels |-> tickLabels(scan.timePoints, 1, -1, <<>>)]

\* The sensor list of the station the dialog was opened for.
ChartSensorList == <<JSensor(12, "NO2"), JSensor(3, "PM10")>>

\* The station whose delegate was clicked, and the properties the delegate
\* gives the dialog: street is the address up to its first space, number what
\* follows it.  The address "a1" has no space: it is the street, and the
\* number is empty.
DialogStation == stationFromJson(StationNS1)
dialogProperties ==
    [stationId |-> DialogStation.stationId, cityName |-> DialogStation.cityName,
     street |-> DialogStation.address, number |-> ""]

\* The dialog's state when the sensor list has arrived: the catalog was
\* loaded, the delegate of station 1 was clicked, fetchSensors(1) was called
\* and the dialog created, and the reply was processed.  Within the emit of
\* sensorsChanged the model of paramSelector became the sensor list, its
\* currentIndex went from -1 to 0, and onCurrentIndexChanged called
\* fetchSensorData for the first sensor of the list: that request is in
\* flight.
InitChart ==
    /\ m_mapCenter = DefaultMapCenter
    /\ m_status = <<"Wprowadz nazwe miasta i kliknij Szukaj">>
    /\ m_stations = <<>>
    /\ m_allStations = <<DialogStation>>
    /\ m_sensors = [i \in 1..Len(ChartSensorList) |-> sensorInfo(ChartSensorList[i])]
    /\ m_sensorData = <<>>
    /\ stationsReply = FALSE
    /\ geocodeReplies = EmptyBag
    /\ sensorsReplies = EmptyBag
    /\ dataReplies = Send(EmptyBag, sensorInfo(ChartSensorList[1]).sensorId)
    /\ selectedSensors = <<>>
    /\ selectionOrder = <<>>
    /\ childStations = <<>>
    /\ fetchLog = [issued |-> {sensorInfo(ChartSensorList[1]).sensorId},
                   removedSinceFetch |-> {}, removedSinceReply |-> {}]
    /\ signals = <<"sensorsChanged">>
    /\ last = [op |-> "onSensorsReply", ok |-> TRUE, key |-> 1]

\* saveButton.onClicked: the dialog asks the MainWindow to save its station,
\* the address being the street, followed by the number when there is one.
saveButtonOnClicked(now, opened) ==
    LET stationId == dialogProperties.stationId
        cityName == dialogProperties.cityName
        street == dialogProperties.street
        number == dialogProperties.number
    IN saveStationData(stationId, cityName,
                       IF number # "" THEN <<street, " ", number>> ELSE street,
                       now, opened)

\* CheckBox.onCheckedChanged of the delegate at index (from 1) of the sensor
\* list, the box having become checked or unchecked.
onCheckedChanged(index, checked) ==
    LET modelData == m_sensors[index]
        key == propertyKey(modelData.sensorId)
    IN /\ checked # (key \in DOMAIN selectedSensors)
       /\ IF checked
          THEN /\ BagCardinality(dataReplies) < MaxInFlight
               /\ selectedSensors' = mapInsert(selectedSensors, key, modelData.paramName)
               /\ selectionOrder' = Append(selectionOrder, modelData.sensorId)
               /\ dataReplies' = Send(dataReplies, modelData.sensorId)
               /\ fetchLog' = [fetchLog EXCEPT !.issued = @ \cup {modelData.sensorId},
                                               !.removedSinceFetch = @ \ {modelData.sensorId}]
               /\ signals' = <<>>
               /\ last' = [op |-> "onCheckedChanged", ok |-> TRUE,
                           key |-> modelData.sensorId, checked |-> TRUE]
               /\ UNCHANGED m_sensorData
          ELSE /\ selectedSensors' = mapRemove(selectedSensors, key)
               /\ selectionOrder' = SelectSeq(selectionOrder,
                                              LAMBDA id : id # modelData.sensorId)
               /\ m_sensorData' = sensorDataAfterRemove(m_sensorData, modelData.sensorId)
               /\ fetchLog' = [fetchLog EXCEPT
                                  !.removedSinceFetch = @ \cup {modelData.sensorId},
                                  !.removedSinceReply = @ \cup {modelData.sensorId}]
               /\ signals' = <<"sensorDataChanged">>
               /\ last' = [op |-> "onCheckedChanged", ok |-> TRUE,
                           key |-> modelData.sensorId, checked |-> FALSE]
               /\ UNCHANGED dataReplies
       /\ UNCHANGED <<searchVars, sensorVars, childStations>>

\* paramSelector.onCurrentIndexChanged, the index counted from 1.
onCurrentIndexChanged(currentIndex) ==
    /\ currentIndex >= 1
    /\ fetchSensorData(m_sensors[currentIndex].sensorId)

\* The "values" arrays of the replies in the chart's runs: no sample, one
\* sample, equal samples around a null one, two different samples, and a
\* single null sample.
ChartResponses ==
    { <<>>,
      <<JPoint(JString("2025-01-02 00:00:00"), JNumber(5))>>,
      <<JPoint(JString("2025-01-01 02:00:00"), JNumber(7)),
        JPoint(JString("2025-01-01 01:00:00"), JNull),
        JPoint(JString("2025-01-01 00:00:00"), JNumber(7))>>,
      <<JPoint(JString("2025-01-03 04:00:00"), JNumber(20)),
        JPoint(JString("2025-01-03 00:00:00"), JNumber(10))>>,
      <<JPoint(JString("2025-01-04 00:00:00"), JNull)>> }

NextChart ==
    \/ \E index \in 1..Len(m_sensors), checked \in BOOLEAN : onCheckedChanged(index, checked)
    \/ \E currentIndex \in 1..Len(m_sensors) : onCurrentIndexChanged(currentIndex)
    \/ \E sensorId \in SensorIds : onSensorDataReplyError(sensorId)
    \/ \E sensorId \in SensorIds, values \in ChartResponses :
          onSensorDataReply(sensorId, values)
    \/ \E now \in SaveTimes, opened \in BOOLEAN : saveButtonOnClicked(now, opened)

(***************************************************************************)
(* StationDialog.qml: the texts below the parameter selector.  A number is *)
(* kept as a fraction num / den; a text is the sequence of the parts it is *)
(* concatenated from.                                                      *)
(***************************************************************************)
\* Mutant: the digits after the second decimal are cut off.
toFixed2Truncating(num, den) ==
    LET n == (100 * num) \div den
    IN numberDigits(n \div 100) \o <<".">> \o <<Digit((n % 100) \div 10), Digit(n % 10)>>

\* Number.prototype.toFixed(2) of num / den (den > 0): the closest number of
\* hundredths, the larger one of two equally close, written with two decimals.
toFixed2(num, den) ==
    LET abs == IF num < 0 THEN -num ELSE num
        n == (200 * abs + den) \div (2 * den)
        digits == numberDigits(n \div 100) \o <<".">>
                     \o <<Digit((n % 100) \div 10), Digit(n % 10)>>
    IN IF num < 0 THEN <<"-">> \o digits ELSE digits

Brak == <<"B", "r", "a", "k">>

\* mainWindow.sensorData[sensorId]: the series, or undefined.
HasData(sensorData, sensorId) ==
    /\ ~noData(sensorData, propertyKey(sensorId))
    /\ Len(sensorData[propertyKey(sensorId)].list) # 0

\* Mutant: latest is the last sample of the series.
latestSampleLast(data) == data[Len(data)]

\* var latest = data[0]
latestSample(data) == data[1]

\* The text binding of latestValueText, also installed again by
\* Connections.onSensorDataChanged; currentIndex counts from 1 and is 0 when
\* nothing is chosen.  toFixed of a value that is no number raises a
\* TypeError and the binding yields no text.
latestValueText(sensors, currentIndex, sensorData) ==
    IF currentIndex < 1 THEN <<"">>
    ELSE LET sensorId == sensors[currentIndex].sensorId
         IN IF ~HasData(sensorData, sensorId) THEN <<"Brak danych">>
            ELSE LET latest == latestSample(sensorData[propertyKey(sensorId)].list)
                 IN IF latest.value.type = "nullptr"
                    THEN <<"Aktualny odczyt: ", Brak, " ug/m3 (", latest.date, ")">>
                    ELSE IF latest.value.type = "double"
                         THEN <<"Aktualny odczyt: ", toFixed2(latest.value.d, 1),
                                " ug/m3 (", latest.date, ")">>
                         ELSE <<"TypeError", latest.value.type>>

\* The loop of the mean binding, from index i: the sum and the count of the
\* valid values.
RECURSIVE sumValues(_, _, _)
sumValues(data, i, acc) ==
    IF i > Len(data) THEN acc
    ELSE sumValues(data, i + 1,
             IF isValidValue(data[i].value)
             THEN [sum |-> acc.sum + data[i].value.d, count |-> acc.count + 1]
             ELSE acc)

\* The text binding of the mean.
meanValueText(sensors, currentIndex, sensorData) ==
    IF currentIndex < 1 THEN <<"">>
    ELSE LET sensorId == sensors[currentIndex].sensorId
         IN IF ~HasData(sensorData, sensorId) THEN <<"Srednia wartosc: Brak danych">>
            ELSE LET r == sumValues(sensorData[propertyKey(sensorId)].list, 1,
                                    [sum |-> 0, count |-> 0])
                     avg == IF r.count > 0 THEN toFixed2(r.sum, r.count) ELSE Brak
                 IN <<"Srednia wartosc: ", avg, " ug/m3">>

\* The loop of the minimum binding, from index i.
RECURSIVE minValue(_, _, _)
minValue(data, i, min) ==
    IF i > Len(data) THEN min
    ELSE minValue(data, i + 1,
             IF isValidValue(data[i].value) THEN MathMin(min, data[i].value.d) ELSE min)

\* The text binding of the minimum.
minValueText(sensors, currentIndex, sensorData) ==
    IF currentIndex < 1 THEN <<"">>
    ELSE LET sensorId == sensors[currentIndex].sensorId
         IN IF ~HasData(sensorData, sensorId) THEN <<"Minimalna wartosc: Brak danych">>
            ELSE LET min == minValue(sensorData[propertyKey(sensorId)].list, 1, NumberMaxValue)
                 IN <<"Minimalna wartosc: ",
                      IF min # NumberMaxValue THEN toFixed2(min, 1) ELSE Brak,
                      " ug/m3">>

\* The loop of the maximum binding, from index i.
RECURSIVE maxValue(_, _, _)
maxValue(data, i, max) ==
    IF i > Len(data) THEN max
    ELSE maxValue(data, i + 1,
             IF isValidValue(data[i].value) THEN MathMax(max, data[i].value.d) ELSE max)

\* The text binding of the maximum.
maxValueText(sensors, currentIndex, sensorData) ==
    IF currentIndex < 1 THEN <<"">>
    ELSE LET sensorId == sensors[currentIndex].sensorId
         IN IF ~HasData(sensorData, sensorId) THEN <<"Maksymalna wartosc: Brak danych">>
            ELSE LET max == maxValue(sensorData[propertyKey(sensorId)].list, 1, -NumberMaxValue)
                 IN <<"Maksymalna wartosc: ",
                      IF max # -NumberMaxValue THEN toFixed2(max, 1) ELSE Brak,
                      " ug/m3">>

\* The "values" arrays of the replies in the runs of the texts: no sample,
\* one sample, a null sample followed by two values, a single null sample, a
\* sample without value, and samples whose mean has more than two decimals.
StatsResponses ==
    { <<>>,
      <<JPoint(JString("2025-01-01 00:00:00"), JNumber(5))>>,
      <<JPoint(JString("2025-01-01 02:00:00"), JNull),
        JPoint(JString("2025-01-01 01:00:00"), JNumber(10)),
        JPoint(JString("2025-01-01 00:00:00"), JNumber(20))>>,
      <<JPoint(JString("2025-01-01 00:00:00"), JNull)>>,
      <<JPoint(JString("2025-01-01 00:00:00"), JUndefined)>>,
      <<JPoint(JString("2025-01-01 02:00:00"), JNumber(10)),
        JPoint(JString("2025-01-01 01:00:00"), JNumber(5)),
        JPoint(JString("2025-01-01 00:00:00"), JNumber(5))>>,
      <<JPoint(JString("2025-01-01 01:00:00"), JNumber(20)),
        JPoint(JString("2025-01-01 00:00:00"), JUndefined)>> }

NextStats ==
    \/ \E currentIndex \in 1..Len(m_sensors) : onCurrentIndexChanged(currentIndex)
    \/ \E sensorId \in SensorIds : onSensorDataReplyError(sensorId)
    \/ \E sensorId \in SensorIds, values \in StatsResponses :
          onSensorDataReply(sensorId, values)
    \/ \E now \in SaveTimes, opened \in BOOLEAN : saveButtonOnClicked(now, opened)

(***************************************************************************)
(* Specifications.  SpecSearch runs the station search over every city,    *)
(* geocoder result and station list of the sets above; SpecStore runs the  *)
(* sensor-data map over every sensor id and getData response, SpecFetch    *)
(* over the replies of at most one data point; Spec runs the whole         *)
(* MainWindow over a few inputs of each kind.  The handlers of one group   *)
(* leave the variables of the other groups unchanged.                      *)
(***************************************************************************)
NextSearch ==
    \/ \E city \in Cities : searchCity(city)
    \/ \E city \in Cities : onGeocodeReplyError(city)
    \/ \E city \in Cities, results \in GeocodeResponses : onGeocodeReply(city, results)
    \/ onStationsReplyError
    \/ \E stations \in StationListResponses : onStationsReply(stations)

\* The catalog, the Stations constructed by the user, and the slot that
\* flags stations.
NextStatus ==
    \/ onStationsReplyError
    \/ \E stations \in StationListResponses : onStationsReply(stations)
    \/ \E id \in SearchedIds : newStation(id)
    \/ \E stationId \in SearchedIds, isSearched \in BOOLEAN :
          updateStationSearchStatus(stationId, isSearched)

NextSensors ==
    \/ \E stationId \in StationIds : fetchSensors(stationId)
    \/ \E stationId \in StationIds : onSensorsReplyError(stationId)
    \/ \E stationId \in StationIds, sensors \in SensorListResponses :
          onSensorsReply(stationId, sensors)

NextStore ==
    \/ \E sensorId \in SensorIds : fetchSensorData(sensorId)
    \/ \E sensorId \in SensorIds : onSensorDataReplyError(sensorId)
    \/ \E sensorId \in SensorIds, values \in DataResponses :
          onSensorDataReply(sensorId, values)
    \/ \E sensorId \in RemovedIds : removeSensorData(sensorId)

\* The getData replies of at most one data point.
ShortDataResponses == SeqsUpTo(DataPointPool, 1)

NextFetch ==
    \/ \E sensorId \in SensorIds : fetchSensorData(sensorId)
    \/ \E sensorId \in SensorIds : onSensorDataReplyError(sensorId)
    \/ \E sensorId \in SensorIds, values \in ShortDataResponses :
          onSensorDataReply(sensorId, values)
    \/ \E sensorId \in SensorIds : removeSensorData(sensorId)

SomeCities == { <<"n", " ", "s">>, <<"X">> }
SomeGeocodeResponses == { <<>>, <<JPlace("50", "20")>> }
SomeStationLists == { <<StationNS1, StationDup>> }
SomeSensorLists == { <<JSensor(3, "PM10")>> }
SomeSensorIds == {3}
\* The station ids saveStationData is called with: one of the catalog, one
\* that no station has.
SavedStationIds == {1, 999}
SomeDataResponses == { <<JPoint(JString("2025-01-01 01:00:00"), JNumber(5))>> }

\* The sensor-data map under every operation that writes it: the requests,
\* their completions, the removal, the replacement, and saveStationData once
\* the catalog and a sensor list have been loaded.
NextReplace ==
    \/ NextFetch
    \/ \E data \in ArchivedMaps : setSensorData(data)
    \/ \E stations \in SomeStationLists : onStationsReply(stations)
    \/ fetchSensors(1)
    \/ \E sensors \in SomeSensorLists : onSensorsReply(1, sensors)
    \/ \E stationId \in SavedStationIds, now \in SaveTimes, opened \in BOOLEAN :
          saveStationData(stationId, <<"N", " ", "S">>, "a1", now, opened)

Next ==
    \/ \E city \in SomeCities : searchCity(city)
    \/ \E city \in SomeCities : onGeocodeReplyError(city)
    \/ \E city \in SomeCities, results \in SomeGeocodeResponses :
          onGeocodeReply(city, results)
    \/ onStationsReplyError
    \/ \E stations \in SomeStationLists : onStationsReply(stations)
    \/ fetchSensors(1)
    \/ onSensorsReplyError(1)
    \/ \E sensors \in SomeSensorLists : onSensorsReply(1, sensors)
    \/ \E sensorId \in SomeSensorIds : fetchSensorData(sensorId)
    \/ \E sensorId \in SomeSensorIds : onSensorDataReplyError(sensorId)
    \/ \E sensorId \in SomeSensorIds, values \in SomeDataResponses :
          onSensorDataReply(sensorId, values)
    \/ \E sensorId \in SomeSensorIds : removeSensorData(sensorId)
    \/ \E stationId \in SavedStationIds, now \in SaveTimes, opened \in BOOLEAN :
          saveStationData(stationId, <<"N", " ", "S">>, "a1", now, opened)

Spec == Init /\ [][Next]_vars
SpecSearch == Init /\ [][NextSearch]_vars
SpecStatus == Init /\ [][NextStatus]_vars
SpecSensors == Init /\ [][NextSensors]_vars
SpecStore == Init /\ [][NextStore]_vars
SpecFetch == Init /\ [][NextFetch]_vars
SpecReplace == Init /\ [][NextReplace]_vars
SpecChart == InitChart /\ [][NextChart]_vars
SpecStats == InitChart /\ [][NextStats]_vars

(***************************************************************************)
(* Properties of the station search.                                       *)
(***************************************************************************)
\* The words of a string: its maximal runs of characters that are not
\* whitespace, from index i on, with the word being read in cur.
RECURSIVE wordsFrom(_, _, _, _)
wordsFrom(s, i, cur, acc) ==
    IF i > Len(s) THEN IF cur = <<>> THEN acc ELSE Append(acc, cur)
    ELSE IF isSpace(s[i])
         THEN wordsFrom(s, i + 1, <<>>, IF cur = <<>> THEN acc ELSE Append(acc, cur))
         ELSE wordsFrom(s, i + 1, Append(cur, s[i]), acc)

\* Two city names are equal up to letter case and leading, trailing and
\* repeated whitespace when they consist of the same words, case ignored.
SameCity(a, b) == wordsFrom(toLower(a), 1, <<>>, <<>>) = wordsFrom(toLower(b), 1, <<>>, <<>>)

SearchCompleted == last.op = "onGeocodeReply" /\ last.ok

\* The coordinate the geocoder returned for the completed search.
GeocodedCoord ==
    QGeoCoordinate(toDouble(Head(last.results).lat), toDouble(Head(last.results).lon))

StationCoord(station) == QGeoCoordinate(station.lat, station.lon)

CatalogHasCity(city) ==
    \E i \in 1..Len(m_allStations) : SameCity(m_allStations[i].cityName, city)

\* C1: after a completed search, every catalog station whose city equals the
\* searched name up to letter case and whitespace is flagged and has its copy,
\* flagged isSearched, in the result set, and every station of that result set
\* is of the searched city.
C1_ExactCityMatch ==
    SearchCompleted =>
        \A i \in 1..Len(m_allStations) :
            SameCity(m_allStations[i].cityName, last.key) =>
                /\ m_allStations[i].isSearched
                /\ \E j \in 1..Len(m_stations) :
                      m_stations[j] = [m_allStations[i] EXCEPT !.isSearched = TRUE]
                /\ \A j \in 1..Len(m_stations) :
                      SameCity(m_stations[j].cityName, last.key)

\* C1 witness: a search found two stations whose city names are written
\* differently from each other and from the searched name.
C1_Witness ==
    /\ SearchCompleted
    /\ Len(m_stations) = 2
    /\ m_stations[1].cityName # m_stations[2].cityName
    /\ m_stations[1].cityName # last.key
    /\ m_stations[2].cityName # last.key
    /\ SameCity(m_stations[1].cityName, last.key)
    /\ SameCity(m_stations[2].cityName, last.key)

\* C2: after a completed search against a non-empty catalog without a station
\* of the searched city, the result set is one catalog station, and no catalog
\* station is closer to the geocoded coordinate than it.
C2_NearestFallback ==
    (SearchCompleted /\ m_allStations # <<>> /\ ~CatalogHasCity(last.key)) =>
        /\ Len(m_stations) = 1
        /\ \E i \in 1..Len(m_allStations) :
              m_stations[1] = [m_allStations[i] EXCEPT !.isSearched = TRUE]
        /\ \A i \in 1..Len(m_allStations) :
              distanceTo(GeocodedCoord, StationCoord(m_stations[1]))
                 <= distanceTo(GeocodedCoord, StationCoord(m_allStations[i]))

\* C2 witness: the fallback chose the second catalog station, which is
\* strictly closer than the first.
C2_Witness ==
    /\ SearchCompleted /\ ~CatalogHasCity(last.key)
    /\ Len(m_allStations) = 2 /\ Len(m_stations) = 1
    /\ m_stations[1].stationId = m_allStations[2].stationId
    /\ distanceTo(GeocodedCoord, StationCoord(m_allStations[2]))
          < distanceTo(GeocodedCoord, StationCoord(m_allStations[1]))

\* C3: after a completed search the catalog stations flagged isSearched are
\* the stations of the result set, stations being identified by their id:
\* the flagged ids are the ids of the result set, and every station of the
\* result set is the flagged copy of a flagged catalog station.
C3_OneActiveResultSet ==
    SearchCompleted =>
        /\ searchedIds(m_allStations) = {m_stations[j].stationId : j \in 1..Len(m_stations)}
        /\ \A j \in 1..Len(m_stations) :
              /\ m_stations[j].isSearched
              /\ \E i \in 1..Len(m_allStations) : m_allStations[i] = m_stations[j]

\* C3 witness: a station flagged by the previous search is not in the new
\* result set and is no longer flagged, while another station is.
C3_Witness ==
    /\ SearchCompleted
    /\ last.searchedBefore \ searchedIds(m_allStations) # {}
    /\ searchedIds(m_allStations) \ last.searchedBefore # {}

\* C4 as stated: a search completing on an empty catalog finds nothing, flags
\* nothing, reports that no station was found and leaves the map centre
\* where it was.
C4_EmptyCatalogLeavesState ==
    (SearchCompleted /\ m_allStations = <<>>) =>
        /\ m_stations = <<>>
        /\ m_status = <<"Nie znaleziono stacji w ", last.key, ".">>
        /\ m_mapCenter = last.centerBefore

\* C4 amended: a search completing on an empty catalog finds nothing, flags
\* nothing, reports that no station was found, and moves the map centre to
\* the geocoded coordinate.
C4_EmptyCatalogNotFound ==
    (SearchCompleted /\ m_allStations = <<>>) =>
        /\ m_stations = <<>>
        /\ searchedIds(m_allStations) = {}
        /\ m_status = <<"Nie znaleziono stacji w ", last.key, ".">>
        /\ m_mapCenter = GeocodedCoord

\* C4 witness: a search completed on an empty catalog and moved the map.
C4_Witness ==
    /\ SearchCompleted /\ m_allStations = <<>>
    /\ m_mapCenter # last.centerBefore

GeocodeFailed == last.op = "onGeocodeReply" /\ ~last.ok

\* C5: a geocoding reply that carries an error or an empty result array
\* changes the status message only: map centre, result set, catalog flags,
\* sensor list and sensor data are left as they were.
C5_FailedGeocodeKeepsState ==
    [][GeocodeFailed' =>
          UNCHANGED <<m_mapCenter, m_stations, m_allStations, m_sensors, m_sensorData>>]_vars

\* C5 witness: a geocoding reply with an empty result array was processed
\* while a result set, flags, a sensor list and sensor data were held.
C5_Witness ==
    /\ GeocodeFailed
    /\ m_status = <<"Nie znaleziono miasta.">>
    /\ m_stations # <<>>
    /\ searchedIds(m_allStations) # {}
    /\ m_mapCenter # DefaultMapCenter
    /\ m_sensors # <<>>
    /\ DOMAIN m_sensorData # {}

(***************************************************************************)
(* Properties of the sensor-data map.                                      *)
(***************************************************************************)
HasEntry(map, sensorId) == QStringNumber(sensorId) \in DOMAIN map

\* The entries of two maps agree on every key other than key.
SameElsewhere(before, after, key) ==
    /\ (DOMAIN before) \ {key} = (DOMAIN after) \ {key}
    /\ \A k \in (DOMAIN before) \ {key} : after[k] = before[k]

\* The series holds the data points of the response, one for one and in order.
HoldsResponse(series, values) ==
    /\ Len(series) = Len(values)
    /\ \A i \in 1..Len(values) :
          /\ values[i].value.type = "number" =>
                series[i].value.type = "double" /\ series[i].value.d = values[i].value.n
          /\ values[i].value.type = "null" => series[i].value.type = "nullptr"
          /\ values[i].value.type = "undefined" => series[i].value.type = "nullptr"
          /\ values[i].date.type = "string" => series[i].date = values[i].date.s
          /\ values[i].date.type = "undefined" => series[i].date = ""

DataReplyStored == last.op = "onSensorDataReply" /\ last.ok
DataReplyFailed == last.op = "onSensorDataReply" /\ ~last.ok

\* C6: a reply without error for sensor k makes the entry of k the data points
\* of the response, in response order, whatever the entry held before, and
\* leaves every other entry as it was.
C6_ReplyReplacesOwnEntry ==
    [][DataReplyStored' =>
          /\ HasEntry(m_sensorData', last'.key)
          /\ m_sensorData'[QStringNumber(last'.key)].type = "QVariantList"
          /\ HoldsResponse(m_sensorData'[QStringNumber(last'.key)].list, last'.values)
          /\ SameElsewhere(m_sensorData, m_sensorData', QStringNumber(last'.key))]_vars

\* C6 witness: a reply of two data points replaced an existing entry while
\* another sensor's entry was held.
C6_Witness ==
    /\ DataReplyStored /\ last.had
    /\ Len(last.values) = 2
    /\ Len(m_sensorData[QStringNumber(last.key)].list) = 2
    /\ Cardinality(DOMAIN m_sensorData) = 2

\* C7: a reply with an error for sensor k leaves no entry for k and leaves
\* every other entry as it was.
C7_FailedReplyRemovesOwnEntry ==
    [][DataReplyFailed' =>
          /\ ~HasEntry(m_sensorData', last'.key)
          /\ SameElsewhere(m_sensorData, m_sensorData', QStringNumber(last'.key))]_vars

\* C7 witness: a failed reply removed an entry an earlier reply had stored,
\* while another sensor's entry was held.
C7_Witness ==
    /\ DataReplyFailed /\ last.had
    /\ ~HasEntry(m_sensorData, last.key)
    /\ DOMAIN m_sensorData # {}

\* What a reply is: an error, or a "values" array.
ReplyOutcomes == {[ok |-> FALSE, values |-> <<>>]}
                    \cup {[ok |-> TRUE, values |-> v] : v \in ShortDataResponses}

\* m_sensorData after the reply for sensorId has been processed.
AfterReply(map, sensorId, outcome) ==
    IF outcome.ok
    THEN sensorDataAfterReply(map, sensorId, outcome.values)
    ELSE sensorDataAfterError(map, sensorId)

\* C8: for two requests in flight for different sensor ids, and whatever
\* their replies are, processing the replies in either order changes only
\* the entries of the two ids and gives the same map.
C8_CompletionOrderIrrelevant ==
    \A a \in BagToSet(dataReplies), b \in BagToSet(dataReplies) :
        a # b =>
            \A ra \in ReplyOutcomes, rb \in ReplyOutcomes :
                LET ab == AfterReply(AfterReply(m_sensorData, a, ra), b, rb)
                    ba == AfterReply(AfterReply(m_sensorData, b, rb), a, ra)
                IN /\ ab = ba
                   /\ SameElsewhere(AfterReply(m_sensorData, a, ra), ab, QStringNumber(b))
                   /\ SameElsewhere(m_sensorData, AfterReply(m_sensorData, a, ra),
                                    QStringNumber(a))

\* C8 witness: requests for two different sensors are in flight while the
\* map holds an entry.
C8_Witness ==
    /\ Cardinality(BagToSet(dataReplies)) = 2
    /\ DOMAIN m_sensorData # {}

\* C9 as stated: the map holds an entry for k only if fetchSensorData(k) was
\* called and removeSensorData(k) has not been called since.
C9_EntryOnlyIfFetchedNotRemoved ==
    \A k \in RemovedIds :
        HasEntry(m_sensorData, k) =>
            k \in fetchLog.issued /\ k \notin fetchLog.removedSinceFetch

\* C9 amended: the map holds an entry for k only if fetchSensorData(k) was
\* called and removeSensorData(k) has not been called since the last reply
\* without error for k was processed; and it holds no other key.
C9_EntryOnlyIfFetchedNotRemovedSinceReply ==
    /\ \A k \in RemovedIds :
          HasEntry(m_sensorData, k) =>
              k \in fetchLog.issued /\ k \notin fetchLog.removedSinceReply
    /\ DOMAIN m_sensorData \subseteq {QStringNumber(k) : k \in RemovedIds}

\* C9 witness: an entry for k is held although removeSensorData(k) was called
\* after the last fetchSensorData(k): the reply arrived after the removal.
C9_Witness ==
    \E k \in SensorIds :
        /\ HasEntry(m_sensorData, k)
        /\ k \in fetchLog.removedSinceFetch
        /\ k \notin fetchLog.removedSinceReply

RemoveCalled == last.op = "removeSensorData"

\* C10: removeSensorData(k) for a k without entry leaves the map as it was;
\* for a k with an entry it deletes that entry and no other.
C10_RemoveOnlyOwnEntry ==
    [][RemoveCalled' =>
          /\ ~HasEntry(m_sensorData', last'.key)
          /\ SameElsewhere(m_sensorData, m_sensorData', QStringNumber(last'.key))
          /\ (~HasEntry(m_sensorData, last'.key) => m_sensorData' = m_sensorData)]_vars

\* C10 witness: removeSensorData was called for an id without entry while the
\* map held the entries of two sensors.
C10_Witness ==
    /\ RemoveCalled /\ ~last.had
    /\ last.key = 999
    /\ Cardinality(DOMAIN m_sensorData) = 2

\* C11: from every store state, processing the same reply without error for
\* sensor k a second time gives the map the first processing gave.
C11_FetchIdempotent ==
    \A k \in SensorIds, values \in DataResponses :
        sensorDataAfterReply(sensorDataAfterReply(m_sensorData, k, values), k, values)
            = sensorDataAfterReply(m_sensorData, k, values)

\* C11 witness: a reply of two data points for k was processed while the map
\* already held exactly those data points for k, and the map did not change.
C11_Witness ==
    /\ DataReplyStored /\ last.had /\ last.same
    /\ Len(last.values) = 2
    /\ Cardinality(DOMAIN m_sensorData) = 2

SetCalled == last.op = "setSensorData"

\* C12: after setSensorData(m) the map is m: it holds the keys of m with the
\* series of m and no other key, and it is empty when m is empty.
C12_SetReplacesWholeMap ==
    SetCalled =>
        /\ DOMAIN m_sensorData = DOMAIN last.data
        /\ \A k \in DOMAIN last.data : m_sensorData[k] = last.data[k]
        /\ (DOMAIN last.data = {} => m_sensorData = <<>>)

\* C12 witness: setSensorData of the empty map was called on a map that
\* held entries.
C12_Witness ==
    /\ SetCalled /\ last.changed
    /\ DOMAIN last.data = {}
    /\ DOMAIN m_sensorData = {}

\* How often a signal occurs in the signals a handler emitted.
Emitted(sigs, name) == Cardinality({i \in 1..Len(sigs) : sigs[i] = name})

\* C13: every step that changes the sensor-data map emits sensorDataChanged
\* exactly once, and the slots run by that emit read the changed map.
C13_OneNotificationPerMutation ==
    [][m_sensorData' # m_sensorData =>
          /\ Emitted(signals', "sensorDataChanged") = 1
          /\ last'.seen = m_sensorData']_vars

\* C13 witness: setSensorData replaced a map holding entries by another map
\* holding entries and emitted sensorDataChanged once.
C13_Witness ==
    /\ SetCalled /\ last.changed
    /\ DOMAIN m_sensorData # {}
    /\ Emitted(signals, "sensorDataChanged") = 1
    /\ fetchLog.issued # {}

(***************************************************************************)
(* Properties of the catalog and of the sensor list.                       *)
(***************************************************************************)
\* C14: the catalog holds at most one Station for each station id.
C14_OneStationPerId ==
    \A i \in 1..Len(m_allStations), j \in 1..Len(m_allStations) :
        m_allStations[i].stationId = m_allStations[j].stationId => i = j

SensorsFailed == last.op = "onSensorsReply" /\ ~last.ok

\* C15: a sensor-list reply that carries an error leaves the sensor list as
\* it was and reports the failure in the status message, which is announced
\* by statusChanged.
C15_FailedSensorsKeepsList ==
    [][SensorsFailed' =>
          /\ m_sensors' = m_sensors
          /\ Emitted(signals', "statusChanged") = 1]_vars

(***************************************************************************)
(* Properties of the chart.                                                *)
(***************************************************************************)
\* What the chart shows in the current state.
Chart == onPaint(selectedSensors, m_sensorData)

\* The keys of the selected sensors that have a series in the map.
SelectedSeries ==
    {k \in (DOMAIN selectedSensors) \cap (DOMAIN m_sensorData) :
        m_sensorData[k].type = "QVariantList"}

\* The values of a series that are numbers.
ValidValuesOf(series) ==
    {series[j].value.d : j \in {n \in 1..Len(series) : series[n].value.type = "double"}}

SelectedValidValues == UNION {ValidValuesOf(m_sensorData[k].list) : k \in SelectedSeries}

PlottedValues ==
    UNION {{Chart.lines[l].points[p].value : p \in 1..Len(Chart.lines[l].points)} :
              l \in 1..Len(Chart.lines)}

\* C16: when the selected series hold a valid value, the chart's range has
\* globalMinValue < globalMaxValue, every valid value of the selected series,
\* and so every plotted value, lies within it, and when all valid values are
\* one value v the range is [v - 1, v + 1].
C16_ChartValueRange ==
    SelectedValidValues # {} =>
        /\ Chart.range.globalMaxValue > Chart.range.globalMinValue
        /\ PlottedValues \subseteq SelectedValidValues
        /\ \A v \in SelectedValidValues :
              Chart.range.globalMinValue <= v /\ v <= Chart.range.globalMaxValue
        /\ \A v \in SelectedValidValues :
              SelectedValidValues = {v} =>
                  /\ Chart.range.globalMinValue = v - 1
                  /\ Chart.range.globalMaxValue = v + 1

\* C16 witness: two series are plotted, one of them with a null sample, and
\* all their valid values are the same value.
C16_Witness ==
    /\ Len(Chart.lines) = 2
    /\ Cardinality(PlottedValues) = 1
    /\ Cardinality(SelectedValidValues) = 1
    /\ \E k \in SelectedSeries : \E j \in 1..Len(m_sensorData[k].list) :
           m_sensorData[k].list[j].value.type = "nullptr"
    /\ Chart.range.globalMaxValue - Chart.range.globalMinValue = 2

\* The series of the sensor that was selected first.
FirstSelectedKey == propertyKey(selectionOrder[1])

\* C17: when the first-selected sensor has samples, the chart's time axis is
\* the sequence of their timestamps, and every plotted series of n samples has
\* its sample at index i drawn at the fraction i / (n - 1) of the width.
C17_CanonicalTimeAxis ==
    (/\ selectionOrder # <<>>
     /\ FirstSelectedKey \in DOMAIN m_sensorData
     /\ Len(toList(m_sensorData[FirstSelectedKey])) > 0) =>
        /\ Chart.timePoints = [j \in 1..Len(m_sensorData[FirstSelectedKey].list) |->
                                  m_sensorData[FirstSelectedKey].list[j].date]
        /\ \A l \in 1..Len(Chart.lines) :
              LET data == m_sensorData[Chart.lines[l].sensorId].list
                  points == Chart.lines[l].points
              IN \A p \in 1..Len(points) :
                    /\ points[p].x.den = Len(data) - 1
                    /\ points[p].x.num \in 0..(Len(data) - 1)
                    /\ data[points[p].x.num + 1].value = QVariantDouble(points[p].value)

Selected(selected, sensorId) == propertyKey(sensorId) \in DOMAIN selected

\* C18: a sensor that becomes selected gets the palette entry at its position
\* in first-selected-first order, or no colour from the seventh position on;
\* a sensor that stays selected keeps its colour; and at most six series are
\* plotted.
C18_StableSelectionColours ==
    [][/\ \A i \in 1..Len(selectionOrder') :
             ~Selected(selectedSensors, selectionOrder'[i]) =>
                 sensorColor(selectedSensors', selectionOrder'[i])
                    = (IF i <= Len(colors) THEN colors[i] ELSE "transparent")
       /\ \A i \in 1..Len(selectionOrder') :
             Selected(selectedSensors, selectionOrder'[i]) =>
                 sensorColor(selectedSensors', selectionOrder'[i])
                    = sensorColor(selectedSensors, selectionOrder'[i])
       /\ Len(Chart'.lines) <= Len(colors)]_vars

(***************************************************************************)
(* Properties of the texts below the parameter selector.                   *)
(***************************************************************************)
\* The series held for the sensor at index of the sensor list, <<>> if none.
SeriesAt(index) ==
    toList(IF propertyKey(m_sensors[index].sensorId) \in DOMAIN m_sensorData
           THEN m_sensorData[propertyKey(m_sensors[index].sensorId)]
           ELSE QVariantInvalid)

\* The indices of the samples of a series whose value is a number.
ValidIndices(series) == {n \in 1..Len(series) : series[n].value.type = "double"}

RECURSIVE SumAt(_, _)
SumAt(series, indices) ==
    IF indices = {} THEN 0
    ELSE LET n == CHOOSE n \in indices : TRUE
         IN series[n].value.d + SumAt(series, indices \ {n})

\* A text of digits, a point and two digits.
IsTwoDecimals(text) ==
    /\ Len(text) >= 4
    /\ text[Len(text) - 2] = "."
    /\ \A i \in (1..Len(text)) \ {Len(text) - 2} : \E d \in 0..9 : text[i] = Digit(d)

\* The number of hundredths such a text denotes.
Hundredths(text) ==
    keyIndex(SubSeq(text, 1, Len(text) - 3) \o SubSeq(text, Len(text) - 1, Len(text)))

\* C19: for the chosen sensor, when its series has valid values the texts
\* show their mean rounded to two decimals, their minimum and their maximum
\* with two decimals; when the series is absent, empty or without a valid
\* value, each text shows "Brak danych" or "Brak" and no number.
C19_StatisticsOverValidSamples ==
    \A index \in 1..Len(m_sensors) :
        LET series == SeriesAt(index)
            valid == ValidIndices(series)
            mean == meanValueText(m_sensors, index, m_sensorData)
            min == minValueText(m_sensors, index, m_sensorData)
            max == maxValueText(m_sensors, index, m_sensorData)
        IN IF series = <<>>
           THEN /\ mean = <<"Srednia wartosc: Brak danych">>
                /\ min = <<"Minimalna wartosc: Brak danych">>
                /\ max = <<"Maksymalna wartosc: Brak danych">>
           ELSE IF valid = {}
           THEN mean[2] = Brak /\ min[2] = Brak /\ max[2] = Brak
           ELSE /\ IsTwoDecimals(mean[2]) /\ IsTwoDecimals(min[2]) /\ IsTwoDecimals(max[2])
                /\ LET d == 100 * SumAt(series, valid)
                               - Hundredths(mean[2]) * Cardinality(valid)
                   IN 2 * d <= Cardinality(valid) /\ -2 * d <= Cardinality(valid)
                /\ \E n \in valid : 100 * series[n].value.d = Hundredths(min[2])
                /\ \A n \in valid : 100 * series[n].value.d >= Hundredths(min[2])
                /\ \E n \in valid : 100 * series[n].value.d = Hundredths(max[2])
                /\ \A n \in valid : 100 * series[n].value.d <= Hundredths(max[2])

\* C19 witness: the series of a sensor is a null sample followed by 10 and
\* 20, and the texts show the minimum 10.00, the maximum 20.00 and the mean
\* 15.00; the series of the other sensor has a mean of 6.67.
C19_Witness ==
    \E index \in 1..Len(m_sensors), other \in 1..Len(m_sensors) :
        /\ Len(SeriesAt(index)) = 3
        /\ SeriesAt(index)[1].value = QVariantNull
        /\ minValueText(m_sensors, index, m_sensorData)[2] = <<"1", "0", ".", "0", "0">>
        /\ maxValueText(m_sensors, index, m_sensorData)[2] = <<"2", "0", ".", "0", "0">>
        /\ meanValueText(m_sensors, index, m_sensorData)[2] = <<"1", "5", ".", "0", "0">>
        /\ ValidIndices(SeriesAt(other)) = {1, 2, 3}
        /\ meanValueText(m_sensors, other, m_sensorData)[2] = <<"6", ".", "6", "7">>

\* C20: for the chosen sensor, the text of the latest value shows the value
\* of the sample at index 0 of its series with two decimals; it shows "Brak
\* danych" when the series is absent or empty and "Brak" when the value of
\* that sample is null.
C20_LatestIsFirstSample ==
    \A index \in 1..Len(m_sensors) :
        LET series == SeriesAt(index)
            latest == latestValueText(m_sensors, index, m_sensorData)
        IN /\ series = <<>> => latest = <<"Brak danych">>
           /\ (series # <<>> /\ series[1].value.type = "nullptr") =>
                 Len(latest) = 5 /\ latest[2] = Brak /\ latest[4] = series[1].date
           /\ (series # <<>> /\ series[1].value.type = "double") =>
                 /\ Len(latest) = 5
                 /\ latest[2] # Brak
                 /\ IsTwoDecimals(latest[2])
                 /\ Hundredths(latest[2]) = 100 * series[1].value.d
                 /\ latest[4] = series[1].date

\* C20 witness: the series of one sensor starts with a null sample followed
\* by values and its text shows "Brak"; the series of the other sensor starts
\* with 10, followed by other values, and its text shows 10.00.
C20_Witness ==
    \E index \in 1..Len(m_sensors), other \in 1..Len(m_sensors) :
        /\ Len(SeriesAt(index)) = 3
        /\ SeriesAt(index)[1].value = QVariantNull
        /\ SeriesAt(index)[2].value = QVariantDouble(10)
        /\ latestValueText(m_sensors, index, m_sensorData)[2] = Brak
        /\ Len(SeriesAt(other)) = 3
        /\ SeriesAt(other)[3].value = QVariantDouble(5)
        /\ latestValueText(m_sensors, other, m_sensorData)[2] = <<"1", "0", ".", "0", "0">>

(***************************************************************************)
(* Properties of the slots as the unit tests call them.                    *)
(***************************************************************************)
StatusUpdated == last.op = "updateStationSearchStatus"

\* The stations of a list other than those with the id are as they were, and
\* those with the id have the flag.
FlagSetOn(before, after, stationId, isSearched) ==
    /\ Len(after) = Len(before)
    /\ \A i \in 1..Len(before) :
          IF before[i].stationId = stationId
          THEN after[i] = [before[i] EXCEPT !.isSearched = isSearched]
          ELSE after[i] = before[i]

\* C21: updateStationSearchStatus(id, v) sets isSearched to v on every Station
\* with that id that belongs to the MainWindow, be it a station of the catalog
\* or a Station constructed as a child of the MainWindow, and leaves the
\* stations with another id as they were.
C21_StatusSetOnOwnStations ==
    [][StatusUpdated' =>
          /\ FlagSetOn(m_allStations, m_allStations', last'.key, last'.isSearched)
          /\ FlagSetOn(childStations, childStations', last'.key, last'.isSearched)]_vars

\* C22: a constructed MainWindow has the map centre (52.2297, 21.0122), and
\* when searchCity returns the map centre is not that one.
C22_SearchCityMovesMapCenter ==
    /\ last.op = "MainWindow" => m_mapCenter = <<522297, 210122>>
    /\ last.op = "searchCity" => m_mapCenter # <<522297, 210122>>

(***************************************************************************)
(* Properties of requests in flight.                                       *)
(***************************************************************************)
\* C23: a request for sensor k stays in flight until its own reply is
\* processed, whatever else is called or completes meanwhile, and a reply
\* without error is stored whenever it is processed: the entry of k then
\* holds the data points of the reply.
C23_NoCancellation ==
    [][/\ \A k \in SensorIds :
             CopiesIn(k, dataReplies') < CopiesIn(k, dataReplies) =>
                 last'.op = "onSensorDataReply" /\ last'.key = k
       /\ DataReplyStored' =>
             /\ HasEntry(m_sensorData', last'.key)
             /\ m_sensorData'[QStringNumber(last'.key)]
                   = QVariantList(sensorDataList(last'.values))]_vars

\* C23 witness: a reply for k was stored, creating the entry, although
\* removeSensorData(k) had been called after the request was issued, the
\* sensor list had been replaced by an empty one and a search had completed.
C23_Witness ==
    /\ DataReplyStored /\ ~last.had
    /\ last.key \in fetchLog.removedSinceFetch
    /\ HasEntry(m_sensorData, last.key)
    /\ m_sensors = <<>>
    /\ sensorsReplies = EmptyBag
    /\ m_stations # <<>>

(***************************************************************************)
(* Properties of what the chart draws.                                     *)
(***************************************************************************)
\* The pairs of points of a plotted line that follow each other with a sample
\* without valid value between them.
GapPairs(points) ==
    {p \in 1..(Len(points) - 1) : points[p + 1].i > points[p].i + 1}

\* C24: a plotted line is broken at a sample without valid value: the next
\* valid sample after such a sample is passed to moveTo, not to lineTo, so that
\* no segment joins the two valid samples around the gap.
C24_PolylineGaps ==
    \A l \in 1..Len(Chart.lines) :
        \A p \in GapPairs(Chart.lines[l].points) :
            Chart.lines[l].points[p + 1].op = "moveTo"

\* C25: when a selection and stored data exist but no sample of a selected
\* series has a valid value, the chart shows "Brak danych czasowych." and
\* neither a line nor a day marker nor a label of the time axis.
C25_NoValidValuePlaceholder ==
    (/\ DOMAIN selectedSensors # {}
     /\ DOMAIN m_sensorData # {}
     /\ SelectedValidValues = {}) =>
        /\ Chart.text = "Brak danych czasowych."
        /\ Chart.lines = <<>>
        /\ Chart.dayMarkers = <<>>
        /\ Chart.tickLabels = <<>>

\* The horizontal positions the chart computes: those of the plotted points,
\* of the day markers and of the labels of the time axis.
ChartPositions ==
    UNION {{Chart.lines[l].points[p].x : p \in 1..Len(Chart.lines[l].points)} :
              l \in 1..Len(Chart.lines)}
    \cup {Chart.dayMarkers[m].x : m \in 1..Len(Chart.dayMarkers)}
    \cup {Chart.tickLabels[t].x : t \in 1..Len(Chart.tickLabels)}

\* C26: every horizontal position the chart computes is a defined fraction of
\* the width between 0 and 1: its divisor is not zero, and the position of
\* the only sample of a one-sample series is 0.
C26_HorizontalMapping ==
    \A x \in ChartPositions : x.den > 0 /\ 0 <= x.num /\ x.num <= x.den

(***************************************************************************)
(* Properties of concurrent searches and of the notifications of a search. *)
(***************************************************************************)
\* C27: a completed search emits allStationsChanged at most once, so that the
\* flags of its result set become visible to the catalog's observers in one
\* notification.
C27_FlagsChangeAsOneBatch ==
    SearchCompleted => Emitted(signals, "allStationsChanged") <= 1

\* The distance of the catalog station at index i from the geocoded coordinate.
DistanceAt(i) == distanceTo(GeocodedCoord, StationCoord(m_allStations[i]))

\* The catalog indices of the stations at the minimal distance.
ClosestIndices ==
    {i \in 1..Len(m_allStations) : \A j \in 1..Len(m_allStations) : DistanceAt(i) <= DistanceAt(j)}

FirstClosest == CHOOSE i \in ClosestIndices : \A j \in ClosestIndices : i <= j

\* C28: when a completed search took the fallback, its result is the first
\* station in catalog order among those at the minimal distance from the
\* geocoded coordinate, and the map centre is that station's coordinate.
C28_NearestTieBreak ==
    (SearchCompleted /\ m_allStations # <<>> /\ ~CatalogHasCity(last.key)) =>
        /\ m_stations = <<[m_allStations[FirstClosest] EXCEPT !.isSearched = TRUE]>>
        /\ m_mapCenter = StationCoord(m_allStations[FirstClosest])

\* C28 witness: the fallback had two different stations with valid, different
\* coordinates at the same minimal distance, and chose the first of them.
C28_Witness ==
    /\ SearchCompleted /\ ~CatalogHasCity(last.key)
    /\ Len(m_allStations) = 2
    /\ m_allStations[1].stationId # m_allStations[2].stationId
    /\ StationCoord(m_allStations[1]) # InvalidCoordinate
    /\ StationCoord(m_allStations[2]) # InvalidCoordinate
    /\ StationCoord(m_allStations[1]) # StationCoord(m_allStations[2])
    /\ GeocodedCoord # InvalidCoordinate
    /\ ClosestIndices = {1, 2}
    /\ Len(m_stations) = 1
    /\ m_stations[1].stationId = m_allStations[1].stationId
    /\ m_mapCenter = StationCoord(m_allStations[1])

(***************************************************************************)
(* Properties of two requests in flight for one sensor.                    *)
(***************************************************************************)
\* Two replies for one sensor have been processed one after the other.
PairCompleted == last.op = "onSensorDataReply" /\ last.pair

\* C29: for a sensor k with two requests in flight, and whatever the two
\* replies are, the map after both have been processed is the map the reply
\* processed last gives alone: k has the data points of that reply when it is
\* without error and no entry when it carries an error; and after two such
\* replies have been processed the entry of k is that of the second.
C29_LastCompletionDecides ==
    /\ \A k \in SensorIds :
          CopiesIn(k, dataReplies) >= 2 =>
              \A ra \in ReplyOutcomes, rb \in ReplyOutcomes :
                  LET both == AfterReply(AfterReply(m_sensorData, k, ra), k, rb)
                  IN /\ both = AfterReply(m_sensorData, k, rb)
                     /\ rb.ok => /\ HasEntry(both, k)
                                 /\ both[QStringNumber(k)] = QVariantList(sensorDataList(rb.values))
                     /\ ~rb.ok => ~HasEntry(both, k)
    /\ PairCompleted =>
          IF last.ok
          THEN /\ HasEntry(m_sensorData, last.key)
               /\ m_sensorData[QStringNumber(last.key)] = QVariantList(sensorDataList(last.values))
          ELSE ~HasEntry(m_sensorData, last.key)

\* C29 witness: of two requests in flight for one sensor the first reply was
\* stored and the second, carrying an error, deleted what the first stored.
C29_Witness ==
    /\ PairCompleted /\ last.firstOk /\ ~last.ok /\ last.had
    /\ ~HasEntry(m_sensorData, last.key)
    /\ CopiesIn(last.key, dataReplies) = 0

(***************************************************************************)
(* Properties of several searches in flight.                               *)
(***************************************************************************)
\* A catalog with every flag cleared.
Unflagged(allStations) ==
    [i \in 1..Len(allStations) |-> [allStations[i] EXCEPT !.isSearched = FALSE]]

\* C30: a geocode reply that completes a search leaves the map centre, the
\* result set and the flags that this search alone gives on the catalog,
\* whatever the searches completed before left and whichever searches are
\* still in flight; a geocode reply that fails leaves all three as they were.
C30_LastSearchDecides ==
    [][/\ SearchCompleted' =>
             LET alone == geocodeResult(Unflagged(m_allStations), last'.key, last'.results)
             IN /\ m_mapCenter' = alone.mapCenter
                /\ m_stations' = alone.stations
                /\ m_allStations' = alone.all
       /\ GeocodeFailed' =>
             UNCHANGED <<m_mapCenter, m_stations, m_allStations>>]_vars

\* C30 witness: of two searches in flight the first completed and flagged
\* stations; the second, completing right after it, left none of those
\* flagged, flagged another station and moved the map centre.
C30_Witness ==
    /\ SearchCompleted /\ last.pair /\ last.firstOk
    /\ last.searchedBefore # {}
    /\ last.searchedBefore \cap searchedIds(m_allStations) = {}
    /\ searchedIds(m_allStations) # {}
    /\ m_mapCenter # last.centerBefore

====
